---- MODULE Spec2Model ----
(***************************************************************************)
(* Model of the dfdaemon download core: the Storage facade                 *)
(* (src/src/storage/mod.rs) used by concurrent piece writers, and the      *)
(* task orchestrator Task::download_into_file (src/src/task/mod.rs).       *)
(*                                                                         *)
(* The metadata store, the content store and the piece manager are not    *)
(* part of the sources at hand; their operators below follow the          *)
(* specification and are marked as such in the comments.                   *)
(***************************************************************************)
EXTENDS Integers, Sequences, FiniteSets, TLC

\* ------------------------------------------------------------------ bounds

\* download.piece_length of the modelled download, in bytes.
PieceLength == 2
\* content_length of the modelled task, in bytes (the last piece is shorter).
ContentLength == 5
\* Interval ticks a waiter observes before only the timeout is left.
MaxPolls == 1
\* Download attempts the concurrent Storage callers make in total.
MaxAttempts == 3
\* Scheduler responses one announce stream delivers.
MaxResponses == 3
\* Failures the environment injects into one download_into_file.
MaxFaults == 2

\* ----------------------------------------------------------------- helpers

Min(a, b) == IF a < b THEN a ELSE b
Max(a, b) == IF a > b THEN a ELSE b

\* Number of pieces covering [0, ContentLength).
NumPieces == (ContentLength + PieceLength - 1) \div PieceLength
PieceNums == 0 .. (NumPieces - 1)
PieceOffset(n) == n * PieceLength
PieceLen(n) == Min(PieceLength, ContentLength - PieceOffset(n))

\* The origin's content: the byte at position i (0-based) is i + 1, so every
\* position is recognisable.  0 is the byte of a hole of a sparse file.
OriginBytes(off, len) == [i \in 1 .. len |-> off + i]
\* A stream whose first byte was damaged in transit.
Corrupt(bytes) == [i \in 1 .. Len(bytes) |-> IF i = 1 THEN 255 ELSE bytes[i]]

\* Streaming hash of a byte stream: SHA-256 idealised as collision free.
Sha256(bytes) == <<Len(bytes), bytes>>
\* Digest::new(Algorithm::Sha256, hash).to_string(): "sha256:<hex>".
DigestToString(hash) == <<"sha256", hash>>

Parents == {"P1", "P2"}
NoParent == "none"

\* --------------------------------------------------------------- variables

VARIABLES
    pieces,     \* metadata store: piece number -> piece record of the task
    content,    \* content store: the bytes of the task's content file
    cpc,        \* concurrent Storage caller -> position
    cnum,       \* caller -> piece number it downloads
    cpolls,     \* caller -> ticks observed in wait_for_piece_finished
    csaw,       \* caller -> a tick of this wait found a pending record
    cheld,      \* caller -> it reserved the piece (metadata.download_piece_started)
    cargs,      \* caller -> arguments of the finished call in progress
    cresp,      \* caller -> WritePieceResponse {length, hash} of its write
    cres,       \* caller -> result of its last finished call
    cattempts,  \* attempts made by all callers
    cupl,       \* caller -> upload transitions its upload_piece has made
    dpc,        \* position of the delete_task call
    task,       \* metadata store: state of the task record
    pc,         \* download_into_file: position
    interested, \* download_into_file: interested_pieces
    work,       \* the list the current loop iterates
    idx,        \* index of the current loop in work
    finished,   \* finished_pieces of the function in progress
    fpos,       \* cursor of the output file f
    file,       \* bytes of the output file
    sent,       \* what was sent on download_progress_tx and in_stream_tx, in order
    sched,      \* scheduler phase: "none", "open", "closed" (the receiver of
                \* in_stream_tx is gone), "Ok" or the error that ended it
    responses,  \* scheduler responses received
    faults,     \* failures the environment injected
    log,        \* history: file writes, source fetches, piece failures, passes
    download,   \* the request: piece_length of the Download, content_length
    tlen,       \* metadata store: content_length of the task record
    chead,      \* caller -> response of its backend request, value it returns
    download_progress_tx, \* "open", or "closed": the caller dropped the receiver
    requests    \* HTTP requests the backend has sent to the origin

storageVars == <<pieces, content>>
callerVars == <<cpc, cnum, cpolls, csaw, cheld, cargs, cresp, cres, cattempts, cupl, dpc>>
orchRest == <<pc, interested, work, idx, finished, fpos, file, sent,
              sched, responses, faults, log>>
orchVars == <<task, pc, interested, work, idx, finished, fpos, file, sent,
              sched, responses, faults, log>>
preflightVars == <<download, tlen, chead, requests, download_progress_tx>>
vars == <<pieces, content, cpc, cnum, cpolls, csaw, cheld, cargs, cresp, cres, cattempts,
          cupl, dpc,
          task, pc, interested, work, idx, finished, fpos, file, sent,
          sched, responses, faults, log, download, tlen, chead, requests,
          download_progress_tx>>

Callers == {"w1", "w2"}
NoArgs == [kind |-> "none", offset |-> 0, length |-> 0, expected |-> <<>>, parent |-> NoParent]
NoResp == [length |-> 0, hash |-> <<>>]

\* ---------------------------------------------------------- metadata store
\* (specification 4.1; the module storage::metadata is not among the sources)

AbsentPiece == [state |-> "Absent", offset |-> 0, length |-> 0,
                digest |-> <<>>, parent |-> NoParent]
PendingPiece == [state |-> "Pending", offset |-> 0, length |-> 0,
                 digest |-> <<>>, parent |-> NoParent]
FinishedPiece(off, len, dig, par) ==
    [state |-> "Finished", offset |-> off, length |-> len, digest |-> dig, parent |-> par]

is_finished(piece) == piece.state = "Finished"

\* download_piece_started: reserves a Pending piece; a committed piece is
\* immutable (write-once) and stays as it is.
metadata_download_piece_started(ps, n) ==
    IF is_finished(ps[n]) THEN ps ELSE [ps EXCEPT ![n] = PendingPiece]

metadata_download_piece_finished_overwrite(ps, n, off, len, dig, par) ==
    [ok |-> TRUE, pieces |-> [ps EXCEPT ![n] = FinishedPiece(off, len, dig, par)]]

\* download_piece_finished: commits; rejects if a prior committed record
\* disagrees on any field.
metadata_download_piece_finished(ps, n, off, len, dig, par) ==
    IF is_finished(ps[n])
    THEN [ok |-> ps[n] = FinishedPiece(off, len, dig, par), pieces |-> ps]
    ELSE [ok |-> TRUE, pieces |-> [ps EXCEPT ![n] = FinishedPiece(off, len, dig, par)]]

\* A failure path that leaves the record as the reservation made it.
metadata_download_piece_failed_keeps_pending(ps, n) == ps

\* download_piece_failed: the failure path sets Failed without committing
\* data; a committed piece stays as it is.
metadata_download_piece_failed(ps, n) ==
    IF is_finished(ps[n]) \/ ps[n].state = "Absent"
    THEN ps
    ELSE [ps EXCEPT ![n].state = "Failed"]

\* download_task_finished: a monotonic terminal transition of the task
\* record; a task that has no record is not created by it.
metadata_download_task_finished(t) == IF t = "InProgress" THEN "Finished" ELSE t

\* content_length of a task record: unset, or set to a value.
NoContentLength == [set |-> FALSE, value |-> 0]
SomeContentLength(n) == [set |-> TRUE, value |-> n]

\* A setter that stores whatever it is given.
metadata_set_task_content_length_overwrite(t, l, n) ==
    IF t = "Absent" THEN [res |-> "TaskNotFound", content_length |-> l]
    ELSE [res |-> "Ok", content_length |-> SomeContentLength(n)]

\* metadata.set_task_content_length: sets if unset; otherwise requires
\* equality, else fails with InvariantViolation.
metadata_set_task_content_length(t, l, n) ==
    IF t = "Absent" THEN [res |-> "TaskNotFound", content_length |-> l]
    ELSE IF ~l.set THEN [res |-> "Ok", content_length |-> SomeContentLength(n)]
    ELSE IF l.value = n THEN [res |-> "Ok", content_length |-> l]
    ELSE [res |-> "InvariantViolation", content_length |-> l]

\* ----------------------------------------------------------- content store
\* (specification 4.2; the module storage::content is not among the sources)

\* write_piece: reads the stream to EOF and writes it at offset; bytes never
\* written read as 0.
content_write_piece(ct, off, reader) ==
    [i \in 1 .. Max(Len(ct), off + Len(reader)) |->
        IF i > off /\ i <= off + Len(reader) THEN reader[i - off]
        ELSE IF i <= Len(ct) THEN ct[i] ELSE 0]

\* The WritePieceResponse of a write: actual byte count and streaming hash.
write_piece_response(reader) == [length |-> Len(reader), hash |-> Sha256(reader)]

\* read_piece: a bounded sequential reader over [offset, offset + length).
content_read_piece(ct, off, len) ==
    [i \in 1 .. Max(0, Min(len, Len(ct) - off)) |-> ct[off + i]]

\* ---------------------------------------------------------- Storage facade

\* download_piece_from_source_finished after its write: the commit carries
\* the requested length and the hash of the streamed bytes.
source_commit(ps, n, off, len, resp) ==
    LET r == metadata_download_piece_finished(ps, n, off, len,
                 DigestToString(resp.hash), NoParent)
    IN  [res |-> IF r.ok THEN "Ok" ELSE "Err", pieces |-> r.pieces]

remote_peer_commit_unchecked(ps, n, off, expected, par, resp) ==
    LET r == metadata_download_piece_finished(ps, n, off, resp.length,
                 DigestToString(resp.hash), par)
    IN  [res |-> IF r.ok THEN "Ok" ELSE "Err", pieces |-> r.pieces]

\* download_piece_from_remote_peer_finished after its write: the digest
\* check, then the commit with the written length.
remote_peer_commit(ps, n, off, expected, par, resp) ==
    IF expected # DigestToString(resp.hash)
    THEN [res |-> "PieceDigestMismatch", pieces |-> ps]
    ELSE LET r == metadata_download_piece_finished(ps, n, off, resp.length,
                      DigestToString(resp.hash), par)
         IN  [res |-> IF r.ok THEN "Ok" ELSE "Err", pieces |-> r.pieces]

\* Storage::download_piece_started run to completion with no concurrent
\* writer: a finished record returns Ok at the first tick; no record
\* (PieceNotFound) or an unfinished one (timeout) creates the piece metadata.
storage_download_piece_started(ps, n) ==
    IF is_finished(ps[n]) THEN ps ELSE metadata_download_piece_started(ps, n)

\* Storage::download_piece_from_source_finished: write, then commit.
storage_download_piece_from_source_finished(ps, ct, n, off, len, reader) ==
    LET r == source_commit(ps, n, off, len, write_piece_response(reader))
    IN  [res |-> r.res, pieces |-> r.pieces,
         content |-> content_write_piece(ct, off, reader)]

\* Storage::download_piece_from_remote_peer_finished: write, check, commit.
storage_download_piece_from_remote_peer_finished(ps, ct, n, off, expected, par, reader) ==
    LET r == remote_peer_commit(ps, n, off, expected, par, write_piece_response(reader))
    IN  [res |-> r.res, pieces |-> r.pieces,
         content |-> content_write_piece(ct, off, reader)]

\* Storage::upload_piece: waits for the piece to be finished, then returns a
\* reader over the bytes at the committed offset and length.
storage_upload_piece(ps, ct, n) ==
    IF is_finished(ps[n])
    THEN [ok |-> TRUE, reader |-> content_read_piece(ct, ps[n].offset, ps[n].length)]
    ELSE [ok |-> FALSE, reader |-> <<>>]

\* Storage::set_task_content_length forwards to the metadata store.
storage_set_task_content_length(t, l, n) == metadata_set_task_content_length(t, l, n)

\* ----------------------------------------------------------- piece manager
\* (specification 4.4; the module task::piece is not among the sources)

\* A calculation in which every piece has the full piece_length.
calculate_interested_unclipped(piece_length, content_length) ==
    IF piece_length = 0
    THEN [ok |-> FALSE, pieces |-> <<>>]
    ELSE [ok |-> TRUE,
          pieces |->
            [i \in 1 .. ((content_length + piece_length - 1) \div piece_length) |->
                [number |-> i - 1,
                 offset |-> (i - 1) * piece_length,
                 length |-> piece_length]]]

\* calculate_interested without a range: all pieces covering
\* [0, content_length); fails when piece_length is 0.
calculate_interested(piece_length, content_length) ==
    IF piece_length = 0
    THEN [ok |-> FALSE, pieces |-> <<>>]
    ELSE [ok |-> TRUE,
          pieces |->
            [i \in 1 .. ((content_length + piece_length - 1) \div piece_length) |->
                [number |-> i - 1,
                 offset |-> (i - 1) * piece_length,
                 length |-> Min(piece_length, content_length - (i - 1) * piece_length)]]]

\* A removal by position: as many pieces as are finished are dropped from
\* the front of interested.
remove_finished_from_interested_by_count(fin, intr) ==
    SubSeq(intr, Min(Len(fin), Len(intr)) + 1, Len(intr))

\* remove_finished_from_interested: set difference by piece number,
\* preserving the order of interested.
remove_finished_from_interested(fin, intr) ==
    SelectSeq(intr, LAMBDA p : \A i \in 1 .. Len(fin) : fin[i].number # p.number)

\* collect_interested_from_remote_peer: each not yet finished piece goes to
\* one candidate parent, round-robin; no candidates, no assignment.
collect_interested_from_remote_peer(ps, intr, candidate_parents) ==
    LET todo == SelectSeq(intr, LAMBDA p : ~is_finished(ps[p.number]))
    IN  IF Len(candidate_parents) = 0 THEN <<>>
        ELSE [i \in 1 .. Len(todo) |->
                [number |-> todo[i].number,
                 parent |-> candidate_parents[((i - 1) % Len(candidate_parents)) + 1]]]

\* download_from_local_peer delegates to Storage.upload_piece.
download_from_local_peer(ps, ct, n) == storage_upload_piece(ps, ct, n)

\* download_from_source: reserves the piece, issues the ranged GET, commits
\* the body through download_piece_from_source_finished and returns a reader
\* over the committed piece.  outcome is what the origin does: "ok", "short"
\* (a 2xx body that ends before the range does), "http" (a non-2xx status)
\* "err" (a transport error) or "write" (the content store fails to write
\* the body).
download_from_source(ps, ct, n, off, len, outcome) ==
    LET started == storage_download_piece_started(ps, n) IN
    IF outcome \in {"http", "err", "write"}
    THEN [res |-> IF outcome = "http" THEN "http" ELSE "err",
          pieces |-> metadata_download_piece_failed(started, n),
          content |-> ct, reader |-> <<>>]
    ELSE LET w == storage_download_piece_from_source_finished(
                      started, ct, n, off, len,
                      IF outcome = "short" THEN OriginBytes(off, len - 1)
                                           ELSE OriginBytes(off, len))
             u == storage_upload_piece(w.pieces, w.content, n)
         IN  IF w.res = "Ok" /\ u.ok
             THEN [res |-> "ok", pieces |-> w.pieces, content |-> w.content,
                   reader |-> u.reader]
             ELSE [res |-> "err", pieces |-> metadata_download_piece_failed(w.pieces, n),
                   content |-> w.content, reader |-> <<>>]

\* download_from_remote_peer: reserves the piece, reads it from the parent,
\* commits it through download_piece_from_remote_peer_finished and returns a
\* reader over the committed piece.  outcome is what the parent does: "ok",
\* "transport" (no stream), "corrupt" (damaged bytes) or "write" (the
\* content store fails to write the stream).
download_from_remote_peer(ps, ct, n, par, outcome) ==
    LET started == storage_download_piece_started(ps, n)
        good == OriginBytes(PieceOffset(n), PieceLen(n))
    IN
    IF outcome \in {"transport", "write"}
    THEN [res |-> "err", pieces |-> metadata_download_piece_failed(started, n),
          content |-> ct, reader |-> <<>>]
    ELSE LET w == storage_download_piece_from_remote_peer_finished(
                      started, ct, n, PieceOffset(n), DigestToString(Sha256(good)), par,
                      IF outcome = "corrupt" THEN Corrupt(good) ELSE good)
             u == storage_upload_piece(w.pieces, w.content, n)
         IN  IF w.res = "Ok" /\ u.ok
             THEN [res |-> "ok", pieces |-> w.pieces, content |-> w.content,
                   reader |-> u.reader]
             ELSE [res |-> "err", pieces |-> metadata_download_piece_failed(w.pieces, n),
                   content |-> w.content, reader |-> <<>>]

\* write_into_file_and_verify(reader, f, expected_digest): copies the reader
\* into f at f's cursor (it is given no offset) while hashing, then compares
\* the digest.  io_ok is whether the copy succeeds.
write_into_file_and_verify(f, pos, reader, expected_digest, io_ok) ==
    IF ~io_ok
    THEN [res |-> "IoError", file |-> f, fpos |-> pos]
    ELSE [res |-> IF DigestToString(Sha256(reader)) = expected_digest
                  THEN "Ok" ELSE "PieceDigestMismatch",
          file |-> content_write_piece(f, pos, reader),
          fpos |-> pos + Len(reader)]

\* ------------------------------------------------ Task::download_into_file

\* Messages on the two channels of one invocation.
Message(chan, kind, phase, n, par, traffic, rec, status) ==
    [chan |-> chan, kind |-> kind, phase |-> phase, number |-> n, parent |-> par,
     traffic |-> traffic, offset |-> rec.offset, length |-> rec.length,
     digest |-> rec.digest, status |-> status]

ProgressEvent_without_digest(phase, n, par, traffic, rec) ==
    Message("progress", "progress", phase, n, par, traffic,
            [rec EXCEPT !.digest = <<>>], "ok")

\* Ok(DownloadTaskResponse {content_length, piece}) on download_progress_tx.
ProgressEvent(phase, n, par, traffic, rec) ==
    Message("progress", "progress", phase, n, par, traffic, rec, "ok")
\* Err(Status) on download_progress_tx.
ErrorEvent(status) ==
    Message("progress", "error", "", 0, NoParent, "", AbsentPiece, status)
\* An AnnouncePeerRequest that does not say which piece it is about.
Request_without_number(kind, phase, n, par, rec, status) ==
    Message("scheduler", kind, phase, 0, par, "", rec, status)

\* AnnouncePeerRequest on in_stream_tx.
Request(kind, phase, n, par, rec, status) ==
    Message("scheduler", kind, phase, n, par, "", rec, status)

Events == SelectSeq(sent, LAMBDA m : m.chan = "progress")
Outbox == SelectSeq(sent, LAMBDA m : m.chan = "scheduler")
ProgressEvents == SelectSeq(sent, LAMBDA m : m.kind = "progress")

\* The piece number has a successful progress event.
Reported(n) == \E i \in 1 .. Len(sent) : sent[i].kind = "progress" /\ sent[i].number = n

EmptyLog == [writes |-> <<>>, fetches |-> <<>>, failures |-> <<>>, passes |-> <<>>,
             local |-> <<>>]
LogWrite(l, phase, p, at) ==
    [l EXCEPT !.writes = Append(@, [phase |-> phase, number |-> p.number,
                                     offset |-> p.offset, at |-> at])]
LogFailure(l, a, cause, aborted) ==
    [l EXCEPT !.failures = Append(@, [number |-> a.number, parent |-> a.parent,
                                       cause |-> cause, aborted |-> aborted])]

LogLocalFailure(l, phase, p, cause, aborted) ==
    [l EXCEPT !.local = Append(@, [phase |-> phase, number |-> p.number,
                                   cause |-> cause, aborted |-> aborted])]

\* The record of piece n as an interested piece (calculate_interested).
InterestedPiece(n) == [number |-> n, offset |-> PieceOffset(n), length |-> PieceLen(n)]
\* A finished piece as download_into_file keeps it: the metadata record.
MetadataPiece(ps, n) == [number |-> n, offset |-> ps[n].offset, length |-> ps[n].length]

\* send(Err(status)) on the progress channel, then return; a failed send is
\* logged.
terminal_error(out, status) ==
    /\ sent' = IF download_progress_tx = "closed" THEN out
               ELSE Append(out, ErrorEvent(status))
    /\ pc' = "done"

\* Convert the timeout (lines 120-137).
convert_timeout(ok) ==
    /\ pc = "timeout"
    /\ IF ok THEN pc' = "open" /\ sent' = sent
             ELSE terminal_error(sent, "invalid_argument")
    /\ UNCHANGED <<storageVars, callerVars, preflightVars, task, interested, work, idx, finished, fpos,
                   file, sched, responses, faults, log>>

\* Open the file (lines 139-158): created if absent, not truncated.
open_file(ok) ==
    /\ pc = "open"
    /\ IF ok THEN pc' = "calculate" /\ sent' = sent
             ELSE terminal_error(sent, "internal")
    /\ UNCHANGED <<storageVars, callerVars, preflightVars, task, interested, work, idx, finished, fpos,
                   file, sched, responses, faults, log>>

\* Calculate the interested pieces (lines 160-181).
calculate_interested_pieces(piece_length) ==
    /\ pc = "calculate"
    /\ LET r == calculate_interested(piece_length, download.content_length) IN
       IF r.ok THEN /\ interested' = r.pieces
                    /\ pc' = "get_task"
                    /\ sent' = sent
               ELSE /\ interested' = interested
                    /\ terminal_error(sent, "invalid_argument")
    /\ UNCHANGED <<storageVars, callerVars, preflightVars, task, work, idx, finished, fpos,
                   file, sched, responses, faults, log>>

\* A lookup that reports a missing task as a failure of the storage.
get_task_missing_is_internal(ok) ==
    /\ pc = "get_task"
    /\ IF ~ok \/ task = "Absent" THEN
            /\ terminal_error(sent, "internal")
            /\ UNCHANGED <<work, idx, finished>>
       ELSE /\ pc' = IF task = "Finished" THEN "local_finished" ELSE "local"
            /\ work' = interested
            /\ idx' = 1
            /\ finished' = <<>>
            /\ sent' = sent
    /\ UNCHANGED <<storageVars, callerVars, preflightVars, task, interested, fpos,
                   file, sched, responses, faults, log>>

\* Get the task from the local storage (lines 183-208) and enter the local
\* drain: inside `if task.is_finished()` first when the task is finished.
get_task(ok) ==
    /\ pc = "get_task"
    /\ IF ~ok THEN
            /\ terminal_error(sent, "internal")
            /\ UNCHANGED <<work, idx, finished>>
       ELSE IF task = "Absent" THEN
            /\ terminal_error(sent, "not_found")
            /\ UNCHANGED <<work, idx, finished>>
       ELSE /\ pc' = IF task = "Finished" THEN "local_finished" ELSE "local"
            /\ work' = interested
            /\ idx' = 1
            /\ finished' = <<>>
            /\ sent' = sent
    /\ UNCHANGED <<storageVars, callerVars, preflightVars, task, interested, fpos,
                   file, sched, responses, faults, log>>

\* One iteration of download_partial_from_local_peer_into_file (lines
\* 681-737); an Err of the function is the terminal error of lines 226-236
\* and 254-264.
download_partial_from_local_peer_into_file_piece(env) ==
    /\ pc \in {"local_finished", "local"}
    /\ idx <= Len(work)
    /\ env = "ok" \/ faults < MaxFaults
    /\ LET p == work[idx]
           u == download_from_local_peer(pieces, content, p.number)
           w == write_into_file_and_verify(file, p.offset, u.reader,
                                           pieces[p.number].digest, env # "io")
       IN
       IF env = "seek" THEN
            \* seek error: continue
            /\ idx' = idx + 1
            /\ faults' = faults + 1
            /\ log' = LogLocalFailure(log, pc, p, "seek", FALSE)
            /\ UNCHANGED <<pc, finished, fpos, file, sent>>
       ELSE IF ~u.ok THEN
            \* download from local peer error: continue
            /\ idx' = idx + 1
            /\ fpos' = p.offset
            /\ log' = LogLocalFailure(log, pc, p, "reader", FALSE)
            /\ UNCHANGED <<pc, finished, file, sent, faults>>
       ELSE IF env = "meta" THEN
            \* self.piece.get(..)? fails
            /\ fpos' = p.offset
            /\ faults' = faults + 1
            /\ terminal_error(sent, "internal")
            /\ log' = LogLocalFailure(log, pc, p, "metadata", TRUE)
            /\ UNCHANGED <<idx, finished, file>>
       ELSE IF w.res # "Ok" THEN
            /\ file' = w.file
            /\ fpos' = w.fpos
            /\ faults' = IF env = "io" THEN faults + 1 ELSE faults
            /\ terminal_error(sent, "internal")
            /\ log' = LET l == LogLocalFailure(log, pc, p, "verify", TRUE) IN
                      IF w.res = "IoError" THEN l ELSE LogWrite(l, pc, p, p.offset)
            /\ UNCHANGED <<idx, finished>>
       ELSE IF download_progress_tx = "closed" THEN
            \* download_progress_tx.send(..).await? fails
            /\ file' = w.file
            /\ fpos' = w.fpos
            /\ terminal_error(sent, "internal")
            /\ log' = LogWrite(log, pc, p, p.offset)
            /\ UNCHANGED <<idx, finished, faults>>
       ELSE /\ file' = w.file
            /\ fpos' = w.fpos
            /\ sent' = Append(sent, ProgressEvent(pc, p.number, NoParent, "LocalPeer",
                                                  pieces[p.number]))
            /\ finished' = Append(finished, p)
            /\ idx' = idx + 1
            /\ log' = LogWrite(log, pc, p, p.offset)
            /\ UNCHANGED <<pc, faults>>
    /\ UNCHANGED <<storageVars, callerVars, preflightVars, task, interested, work, sched, responses>>

\* A return of the local drain that goes on to the scheduler phase whatever
\* is left of the interested pieces.
download_partial_from_local_peer_into_file_done_no_return ==
    /\ pc \in {"local_finished", "local"}
    /\ idx > Len(work)
    /\ IF pc = "local_finished"
       THEN /\ pc' = "local"
            /\ UNCHANGED <<interested, work>>
       ELSE LET rest == remove_finished_from_interested(finished, interested) IN
            /\ interested' = rest
            /\ work' = rest
            /\ pc' = "scheduler"
    /\ idx' = 1
    /\ finished' = <<>>
    /\ log' = [log EXCEPT !.passes = Append(@, [phase |-> pc, all_finished |-> FALSE,
                                                returned |-> TRUE])]
    /\ UNCHANGED <<storageVars, callerVars, preflightVars, task, fpos, file, sent, sched, responses, faults>>

\* download_partial_from_local_peer_into_file returns Ok(finished_pieces).
\* The call inside `if task.is_finished()` (lines 211-238) discards it and
\* the unconditional call (lines 243-265) follows; after that one the
\* finished pieces are removed and an empty rest returns (lines 267-280).
download_partial_from_local_peer_into_file_done ==
    /\ pc \in {"local_finished", "local"}
    /\ idx > Len(work)
    /\ IF pc = "local_finished"
       THEN /\ pc' = "local"
            /\ UNCHANGED <<interested, work>>
       ELSE LET rest == remove_finished_from_interested(finished, interested) IN
            /\ interested' = rest
            /\ work' = rest
            /\ pc' = IF rest = <<>> THEN "done" ELSE "scheduler"
    /\ idx' = 1
    /\ finished' = <<>>
    /\ log' = [log EXCEPT !.passes = Append(@, [phase |-> pc, all_finished |-> FALSE,
                                                returned |-> TRUE])]
    /\ UNCHANGED <<storageVars, callerVars, preflightVars, task, fpos, file, sent, sched, responses, faults>>

download_with_scheduler_error_reported(out, reason) ==
    /\ sent' = Append(out, ErrorEvent("internal"))
    /\ sched' = reason
    /\ pc' = "source"
    /\ work' = interested
    /\ idx' = 1
    /\ finished' = <<>>

download_with_scheduler_error_returns(out, reason) ==
    /\ sent' = out
    /\ sched' = reason
    /\ pc' = "done"
    /\ work' = interested
    /\ idx' = 1
    /\ finished' = <<>>

\* Err(err) of download_partial_with_scheduler_into_file in
\* download_into_file (lines 299-314): the error is logged and the pieces
\* are downloaded from the source, over interested_pieces as they were
\* handed to the scheduler phase.  out is what the channels hold by then.
download_with_scheduler_error(out, reason) ==
    /\ sent' = out
    /\ sched' = reason
    /\ pc' = "source"
    /\ work' = interested
    /\ idx' = 1
    /\ finished' = <<>>

\* Ok(_) of download_partial_with_scheduler_into_file (lines 298, 331).
download_with_scheduler_ok(out) ==
    /\ sent' = out
    /\ sched' = "Ok"
    /\ pc' = "done"

register_peer_started_first(out) ==
    out \o <<Request("DownloadPeerStartedRequest", "scheduler", 0, NoParent,
                     AbsentPiece, ""),
             Request("RegisterPeerRequest", "scheduler", 0, NoParent, AbsentPiece, "")>>

\* The first two sends on in_stream_tx (lines 356-380): RegisterPeerRequest,
\* then DownloadPeerStartedRequest.
register_peer(out) ==
    out \o <<Request("RegisterPeerRequest", "scheduler", 0, NoParent, AbsentPiece, ""),
             Request("DownloadPeerStartedRequest", "scheduler", 0, NoParent,
                     AbsentPiece, "")>>

CandidateLists == {<<>>, <<"P1">>, <<"P1", "P2">>}

\* download_partial_with_scheduler_into_file up to the receive loop (lines
\* 347-389): header conversion, RegisterPeerRequest,
\* DownloadPeerStartedRequest, announce_peer.
announce_peer(env) ==
    /\ pc = "scheduler"
    /\ LET registered == register_peer(sent) IN
       IF env = "header" THEN download_with_scheduler_error(sent, "header")
       ELSE IF env = "announce" THEN download_with_scheduler_error(registered, "announce")
       ELSE /\ sent' = registered
            /\ sched' = "open"
            /\ pc' = "receive"
            /\ finished' = <<>>
            /\ UNCHANGED <<work, idx>>
    /\ UNCHANGED <<storageVars, callerVars, preflightVars, task, interested, fpos, file, responses,
                   faults, log>>

\* An EmptyTaskResponse taken for a failure of the scheduler phase.
receive_empty_task_as_error ==
    /\ pc = "receive"
    /\ responses < MaxResponses
    /\ responses' = responses + 1
    /\ download_with_scheduler_error(sent, "empty_task")
    /\ UNCHANGED <<storageVars, callerVars, preflightVars, task, interested, fpos,
                   file, faults, log>>

\* EmptyTaskResponse (lines 393-398).
receive_empty_task ==
    /\ pc = "receive"
    /\ responses < MaxResponses
    /\ responses' = responses + 1
    /\ download_with_scheduler_ok(sent)
    /\ UNCHANGED <<storageVars, callerVars, preflightVars, task, interested, work, idx, finished, fpos,
                   file, faults, log>>

\* NormalTaskResponse (lines 399-411): collect the assignments.
receive_normal_task(candidate_parents) ==
    /\ pc = "receive"
    /\ responses < MaxResponses
    /\ responses' = responses + 1
    /\ work' = collect_interested_from_remote_peer(pieces, interested, candidate_parents)
    /\ idx' = 1
    /\ pc' = "normal"
    /\ UNCHANGED <<storageVars, callerVars, preflightVars, task, interested, finished, fpos, file, sent,
                   sched, faults, log>>

\* One iteration over collect_interested_pieces (lines 413-508).
normal_task_piece(env) ==
    /\ pc = "normal"
    /\ idx <= Len(work)
    /\ env = "ok" \/ faults < MaxFaults
    /\ LET a == work[idx]
           d == download_from_remote_peer(pieces, content, a.number, a.parent,
                    IF env \in {"transport", "corrupt", "write"} THEN env ELSE "ok")
           metadata == d.pieces[a.number]
           w == write_into_file_and_verify(file, fpos, d.reader, metadata.digest,
                                           env # "io")
           p == MetadataPiece(d.pieces, a.number)
       IN
       /\ pieces' = d.pieces
       /\ content' = d.content
       /\ IF d.res # "ok" THEN
               \* download from remote peer error: DownloadPieceFailedRequest, continue
               \* (a failed send of it is logged: continue)
               /\ sent' = IF sched = "closed" THEN sent
                          ELSE Append(sent, Request("DownloadPieceFailedRequest", pc,
                                                    a.number, a.parent, AbsentPiece,
                                                    "temporary"))
               /\ idx' = idx + 1
               /\ faults' = IF env \in {"transport", "corrupt", "write"} THEN faults + 1 ELSE faults
               /\ log' = LogFailure(log, a, "download", FALSE)
               /\ UNCHANGED <<pc, work, finished, fpos, file, sched>>
          ELSE IF env = "meta" THEN
               \* self.piece.get(..)? fails
               /\ download_with_scheduler_error(sent, "piece_not_found")
               /\ faults' = faults + 1
               /\ log' = LogFailure(log, a, "metadata", TRUE)
               /\ UNCHANGED <<fpos, file>>
          ELSE IF w.res # "Ok" THEN
               \* write_into_file_and_verify(..)? fails
               /\ file' = w.file
               /\ fpos' = w.fpos
               /\ download_with_scheduler_error(sent, w.res)
               /\ faults' = IF env = "io" THEN faults + 1 ELSE faults
               /\ log' = LET l == LogFailure(log, a, "verify", TRUE) IN
                         IF w.res = "IoError" THEN l ELSE LogWrite(l, pc, p, fpos)
          ELSE IF sched = "closed" THEN
               \* in_stream_tx.send(DownloadPieceFinishedRequest).await? fails
               /\ file' = w.file
               /\ fpos' = w.fpos
               /\ download_with_scheduler_error(sent, "send_error")
               /\ log' = LogWrite(log, pc, p, fpos)
               /\ UNCHANGED faults
          ELSE IF download_progress_tx = "closed" THEN
               \* DownloadPieceFinishedRequest is sent, then
               \* download_progress_tx.send(..).await? fails
               /\ file' = w.file
               /\ fpos' = w.fpos
               /\ download_with_scheduler_error(
                      Append(sent, Request("DownloadPieceFinishedRequest", pc, a.number,
                                           a.parent, metadata, "")),
                      "progress_send_error")
               /\ log' = LogWrite(log, pc, p, fpos)
               /\ UNCHANGED faults
          ELSE /\ file' = w.file
               /\ fpos' = w.fpos
               /\ sent' = sent \o
                     <<Request("DownloadPieceFinishedRequest", pc, a.number, a.parent,
                               metadata, ""),
                       ProgressEvent(pc, a.number, a.parent, "RemotePeer", metadata)>>
               /\ finished' = Append(finished, p)
               /\ idx' = idx + 1
               /\ log' = LogWrite(log, pc, p, fpos)
               /\ UNCHANGED <<pc, work, sched, faults>>
    /\ UNCHANGED <<callerVars, preflightVars, task, interested, responses>>

\* After the assignments (lines 510-515): all pieces downloaded returns.
normal_task_done ==
    /\ pc = "normal"
    /\ idx > Len(work)
    /\ IF Len(finished) = Len(interested)
       THEN download_with_scheduler_ok(sent)
       ELSE pc' = "receive" /\ UNCHANGED <<sent, sched>>
    /\ UNCHANGED <<storageVars, callerVars, preflightVars, task, interested, work, idx, finished, fpos,
                   file, responses, faults, log>>

\* NeedBackToSourceResponse (lines 517-523): interested_pieces is rebound
\* to the pieces not yet finished.
receive_need_back_to_source ==
    /\ pc = "receive"
    /\ responses < MaxResponses
    /\ responses' = responses + 1
    /\ work' = remove_finished_from_interested(finished, interested)
    /\ idx' = 1
    /\ pc' = "back_to_source"
    /\ UNCHANGED <<storageVars, callerVars, preflightVars, task, interested, finished, fpos, file, sent,
                   sched, faults, log>>

\* One iteration over the rebound interested_pieces (lines 525-651).
need_back_to_source_piece(env) ==
    /\ pc = "back_to_source"
    /\ idx <= Len(work)
    /\ env = "ok" \/ faults < MaxFaults
    /\ LET p == work[idx]
           d == download_from_source(pieces, content, p.number, p.offset, p.length,
                    IF env \in {"short", "http", "err", "write"} THEN env ELSE "ok")
           metadata == d.pieces[p.number]
           w == write_into_file_and_verify(file, p.offset, d.reader, metadata.digest,
                                           env # "io")
           m == MetadataPiece(d.pieces, p.number)
       IN
       IF env = "seek" THEN
            \* seek error: continue
            /\ idx' = idx + 1
            /\ faults' = faults + 1
            /\ UNCHANGED <<storageVars, pc, work, finished, fpos, file, sent, sched, log>>
       ELSE
       /\ pieces' = d.pieces
       /\ content' = d.content
       /\ IF d.res # "ok" /\ sched = "closed" THEN
               \* the send of DownloadPieceBackToSourceFailedRequest fails: continue
               /\ idx' = idx + 1
               /\ fpos' = p.offset
               /\ faults' = IF env \in {"short", "http", "err", "write"} THEN faults + 1 ELSE faults
               /\ log' = [log EXCEPT !.fetches = Append(@,
                             [phase |-> pc, number |-> p.number, res |-> d.res,
                              residual |-> ~Reported(p.number)])]
               /\ UNCHANGED <<pc, work, finished, file, sent, sched>>
          ELSE IF d.res # "ok" THEN
               \* DownloadPieceBackToSourceFailedRequest, then return Err
               /\ download_with_scheduler_error(
                      Append(sent, Request("DownloadPieceBackToSourceFailedRequest", pc,
                                           p.number, NoParent, AbsentPiece,
                                           IF d.res = "http" THEN "503" ELSE "")),
                      d.res)
               /\ fpos' = p.offset
               /\ faults' = IF env \in {"short", "http", "err", "write"} THEN faults + 1 ELSE faults
               /\ log' = [log EXCEPT !.fetches = Append(@,
                             [phase |-> pc, number |-> p.number, res |-> d.res,
                              residual |-> ~Reported(p.number)])]
               /\ UNCHANGED file
          ELSE IF env = "meta" THEN
               /\ download_with_scheduler_error(sent, "piece_not_found")
               /\ fpos' = p.offset
               /\ faults' = faults + 1
               /\ log' = [log EXCEPT !.fetches = Append(@,
                             [phase |-> pc, number |-> p.number, res |-> d.res,
                              residual |-> ~Reported(p.number)])]
               /\ UNCHANGED file
          ELSE IF w.res # "Ok" THEN
               /\ file' = w.file
               /\ fpos' = w.fpos
               /\ download_with_scheduler_error(sent, w.res)
               /\ faults' = IF env \in {"short", "io"} THEN faults + 1 ELSE faults
               /\ log' = LET l == [log EXCEPT !.fetches = Append(@,
                                     [phase |-> pc, number |-> p.number, res |-> d.res,
                                      residual |-> ~Reported(p.number)])]
                         IN  IF w.res = "IoError" THEN l ELSE LogWrite(l, pc, m, p.offset)
          ELSE IF sched = "closed" THEN
               \* in_stream_tx.send(DownloadPieceFinishedRequest).await? fails
               /\ file' = w.file
               /\ fpos' = w.fpos
               /\ download_with_scheduler_error(sent, "send_error")
               /\ log' = LogWrite([log EXCEPT !.fetches = Append(@,
                                      [phase |-> pc, number |-> p.number, res |-> d.res,
                                       residual |-> ~Reported(p.number)])],
                                  pc, m, p.offset)
               /\ UNCHANGED faults
          ELSE IF download_progress_tx = "closed" THEN
               \* DownloadPieceFinishedRequest is sent, then
               \* download_progress_tx.send(..).await? fails
               /\ file' = w.file
               /\ fpos' = w.fpos
               /\ download_with_scheduler_error(
                      Append(sent, Request("DownloadPieceFinishedRequest", pc, p.number,
                                           NoParent, metadata, "")),
                      "progress_send_error")
               /\ log' = LogWrite([log EXCEPT !.fetches = Append(@,
                                      [phase |-> pc, number |-> p.number, res |-> d.res,
                                       residual |-> ~Reported(p.number)])],
                                  pc, m, p.offset)
               /\ UNCHANGED faults
          ELSE /\ file' = w.file
               /\ fpos' = w.fpos
               /\ sent' = sent \o
                     <<Request("DownloadPieceFinishedRequest", pc, p.number, NoParent,
                               metadata, ""),
                       ProgressEvent(pc, p.number, NoParent, "BackToSource", metadata)>>
               /\ finished' = Append(finished, m)
               /\ idx' = idx + 1
               /\ log' = LogWrite([log EXCEPT !.fetches = Append(@,
                                      [phase |-> pc, number |-> p.number, res |-> d.res,
                                       residual |-> ~Reported(p.number)])],
                                  pc, m, p.offset)
               /\ UNCHANGED <<pc, work, sched, faults>>
    /\ UNCHANGED <<callerVars, preflightVars, task, interested, responses>>

\* A pass over the back-to-source pieces that has no way on when pieces are
\* left unfinished.
need_back_to_source_done_only_when_complete ==
    /\ pc = "back_to_source"
    /\ idx > Len(work)
    /\ Len(finished) = Len(work)
    /\ download_with_scheduler_ok(sent)
    /\ log' = [log EXCEPT !.passes = Append(@,
                  [phase |-> pc, all_finished |-> TRUE, returned |-> TRUE])]
    /\ UNCHANGED <<storageVars, callerVars, preflightVars, task, interested, work, idx, finished, fpos,
                   file, responses, faults>>

\* After the back-to-source pieces (lines 653-657): finished_pieces is
\* compared with the rebound interested_pieces.
need_back_to_source_done ==
    /\ pc = "back_to_source"
    /\ idx > Len(work)
    /\ IF Len(finished) = Len(work)
       THEN download_with_scheduler_ok(sent)
       ELSE pc' = "receive" /\ UNCHANGED <<sent, sched>>
    /\ log' = [log EXCEPT !.passes = Append(@,
                  [phase |-> pc,
                   all_finished |-> \A i \in 1 .. Len(interested) :
                                       \E j \in 1 .. Len(finished) :
                                           finished[j].number = interested[i].number,
                   returned |-> Len(finished) = Len(work)])]
    /\ UNCHANGED <<storageVars, callerVars, preflightVars, task, interested, work, idx, finished, fpos,
                   file, responses, faults>>

\* The receiving half of the channel behind in_stream_tx (line 354) is
\* dropped by the transport while the session runs: from then on every
\* in_stream_tx.send(..) returns an error.
in_stream_rx_dropped ==
    /\ pc \in {"receive", "normal", "back_to_source"}
    /\ sched = "open"
    /\ faults < MaxFaults
    /\ sched' = "closed"
    /\ faults' = faults + 1
    /\ UNCHANGED <<storageVars, callerVars, preflightVars, task, pc, interested, work, idx, finished, fpos,
                   file, sent, responses, log>>

\* out_stream.message() yields None: the loop ends and the function returns
\* Err(Unknown("not all pieces are downloaded with scheduler")) (lines 390,
\* 662-665).
receive_stream_end ==
    /\ pc = "receive"
    /\ download_with_scheduler_error(sent, "not_all_pieces")
    /\ UNCHANGED <<storageVars, callerVars, preflightVars, task, interested, fpos, file, responses,
                   faults, log>>

\* out_stream.message() fails, or the message carries no response (lines
\* 390-391).
receive_error(kind) ==
    /\ pc = "receive"
    /\ download_with_scheduler_error(sent, kind)
    /\ UNCHANGED <<storageVars, callerVars, preflightVars, task, interested, fpos, file, responses,
                   faults, log>>

\* One iteration of download_partial_from_source_into_file (lines 760-811);
\* an Err of the function is the terminal error of lines 317-327.
download_partial_from_source_into_file_piece(env) ==
    /\ pc = "source"
    /\ idx <= Len(work)
    /\ env = "ok" \/ faults < MaxFaults
    /\ LET p == work[idx]
           d == download_from_source(pieces, content, p.number, p.offset, p.length,
                    IF env \in {"short", "http", "err", "write"} THEN env ELSE "ok")
           metadata == d.pieces[p.number]
           w == write_into_file_and_verify(file, fpos, d.reader, metadata.digest,
                                           env # "io")
           m == MetadataPiece(d.pieces, p.number)
           fetched == [log EXCEPT !.fetches = Append(@,
                          [phase |-> pc, number |-> p.number, res |-> d.res,
                           residual |-> ~Reported(p.number)])]
       IN
       /\ pieces' = d.pieces
       /\ content' = d.content
       /\ IF d.res # "ok" THEN
               /\ terminal_error(sent, "internal")
               /\ faults' = IF env \in {"short", "http", "err", "write"} THEN faults + 1 ELSE faults
               /\ log' = fetched
               /\ UNCHANGED <<idx, finished, fpos, file>>
          ELSE IF env = "meta" THEN
               /\ terminal_error(sent, "internal")
               /\ faults' = faults + 1
               /\ log' = fetched
               /\ UNCHANGED <<idx, finished, fpos, file>>
          ELSE IF w.res # "Ok" THEN
               /\ file' = w.file
               /\ fpos' = w.fpos
               /\ terminal_error(sent, "internal")
               /\ faults' = IF env \in {"short", "io"} THEN faults + 1 ELSE faults
               /\ log' = IF w.res = "IoError" THEN fetched
                         ELSE LogWrite(fetched, pc, m, fpos)
               /\ UNCHANGED <<idx, finished>>
          ELSE IF download_progress_tx = "closed" THEN
               \* download_progress_tx.send(..).await? fails
               /\ file' = w.file
               /\ fpos' = w.fpos
               /\ terminal_error(sent, "internal")
               /\ log' = LogWrite(fetched, pc, m, fpos)
               /\ UNCHANGED <<idx, finished, faults>>
          ELSE /\ file' = w.file
               /\ fpos' = w.fpos
               /\ sent' = Append(sent, ProgressEvent(pc, p.number, NoParent, "LocalPeer",
                                                     metadata))
               /\ finished' = Append(finished, m)
               /\ idx' = idx + 1
               /\ log' = LogWrite(fetched, pc, m, fpos)
               /\ UNCHANGED <<pc, faults>>
    /\ UNCHANGED <<callerVars, preflightVars, task, interested, work, sched, responses>>

\* After the source pieces (lines 813-822, 316-327).
download_partial_from_source_into_file_done ==
    /\ pc = "source"
    /\ idx > Len(work)
    /\ IF Len(finished) = Len(work)
       THEN pc' = "done" /\ sent' = sent
       ELSE terminal_error(sent, "internal")
    /\ UNCHANGED <<storageVars, callerVars, preflightVars, task, interested, work, idx, finished, fpos,
                   file, sched, responses, faults, log>>

\* ------------------------------------------------------------ local storage

\* The record of a piece committed from the origin's bytes.
CommittedPiece(n) ==
    FinishedPiece(PieceOffset(n), PieceLen(n),
                  DigestToString(Sha256(OriginBytes(PieceOffset(n), PieceLen(n)))),
                  NoParent)

\* The content file that holds exactly the pieces of S.
ContentOf(S) ==
    LET ends == {PieceOffset(n) + PieceLen(n) : n \in S}
        size == IF S = {} THEN 0 ELSE CHOOSE e \in ends : \A x \in ends : x <= e
    IN  [i \in 1 .. size |->
            IF \E n \in S : PieceOffset(n) < i /\ i <= PieceOffset(n) + PieceLen(n)
            THEN i ELSE 0]

CallersIdle ==
    /\ cpc = [c \in Callers |-> "idle"]
    /\ cnum = [c \in Callers |-> 0]
    /\ cpolls = [c \in Callers |-> 0]
    /\ csaw = [c \in Callers |-> FALSE]
    /\ cheld = [c \in Callers |-> FALSE]
    /\ cargs = [c \in Callers |-> NoArgs]
    /\ cresp = [c \in Callers |-> NoResp]
    /\ cres = [c \in Callers |-> "none"]
    /\ cattempts = 0
    /\ cupl = [c \in Callers |-> <<>>]
    /\ dpc = "idle"

\* No response held by a caller.
NoHead == [ok |-> FALSE, error |-> "none", success |-> FALSE, http_status_code |-> 0,
           value |-> 0, has_header |-> FALSE, client_ok |-> FALSE, origin |-> 0,
           sent |-> 0]

\* The content length is resolved and cached; no backend call is in progress.
PreflightOff ==
    /\ download = [piece_length |-> PieceLength, content_length |-> ContentLength]
    /\ tlen = SomeContentLength(ContentLength)
    /\ chead = [c \in Callers |-> NoHead]
    /\ requests = 0
    /\ download_progress_tx = "open"

OrchestratorAt(at) ==
    /\ pc = at
    /\ interested = <<>>
    /\ work = <<>>
    /\ idx = 1
    /\ finished = <<>>
    /\ fpos = 0
    /\ file = <<>>
    /\ sent = <<>>
    /\ sched = "none"
    /\ responses = 0
    /\ faults = 0
    /\ log = EmptyLog

\* No download_into_file runs: the concurrent callers have the store.
OrchestratorOff == task = "InProgress" /\ OrchestratorAt("off")

\* One download_into_file over a local storage in which the task is absent,
\* in progress with any set of its pieces committed, or finished.
Init ==
    /\ \E t \in {"Absent", "InProgress", "Finished"}, S \in SUBSET PieceNums :
          /\ t = "Finished" => S = PieceNums
          /\ t = "Absent" => S = {}
          /\ task = t
          /\ pieces = [n \in PieceNums |-> IF n \in S THEN CommittedPiece(n)
                                                      ELSE AbsentPiece]
          /\ content = ContentOf(S)
    /\ CallersIdle
    /\ OrchestratorAt("timeout")
    /\ PreflightOff

Next ==
    \/ \E ok \in BOOLEAN : convert_timeout(ok)
    \/ \E ok \in BOOLEAN : open_file(ok)
    \/ \E piece_length \in {0, PieceLength} : calculate_interested_pieces(piece_length)
    \/ \E ok \in BOOLEAN : get_task(ok)
    \/ \E env \in {"ok", "seek", "meta", "io"} :
           download_partial_from_local_peer_into_file_piece(env)
    \/ download_partial_from_local_peer_into_file_done
    \/ \E env \in {"ok", "header", "announce"} : announce_peer(env)
    \/ receive_empty_task
    \/ \E candidate_parents \in CandidateLists : receive_normal_task(candidate_parents)
    \/ \E env \in {"ok", "transport", "corrupt", "write", "meta", "io"} :
           normal_task_piece(env)
    \/ normal_task_done
    \/ receive_need_back_to_source
    \/ \E env \in {"ok", "seek", "short", "http", "err", "write", "meta", "io"} :
           need_back_to_source_piece(env)
    \/ need_back_to_source_done
    \/ in_stream_rx_dropped
    \/ receive_stream_end
    \/ \E kind \in {"stream_error", "unexpected_response"} : receive_error(kind)
    \/ \E env \in {"ok", "short", "http", "err", "write", "meta", "io"} :
           download_partial_from_source_into_file_piece(env)
    \/ download_partial_from_source_into_file_done

Spec == Init /\ [][Next]_vars

\* The iteration over the current piece comes back: its fetch, its write and
\* its sends return, and the loop goes to the next piece or is left with an
\* error.
piece_iteration_returns ==
    /\ pc \in {"local_finished", "local", "normal", "back_to_source", "source"}
    /\ idx <= Len(work)
    /\ \/ idx' = idx + 1 /\ pc' = pc
       \/ pc' \in {"source", "done"}

\* A step of download_into_file between the iterations: the preflight, the
\* end of a loop, the receipt of a response or of the end of the stream.
orchestrator_step ==
    \/ \E ok \in BOOLEAN : convert_timeout(ok)
    \/ \E ok \in BOOLEAN : open_file(ok)
    \/ \E piece_length \in {0, PieceLength} : calculate_interested_pieces(piece_length)
    \/ \E ok \in BOOLEAN : get_task(ok)
    \/ download_partial_from_local_peer_into_file_done
    \/ \E env \in {"ok", "header", "announce"} : announce_peer(env)
    \/ receive_empty_task
    \/ \E candidate_parents \in CandidateLists : receive_normal_task(candidate_parents)
    \/ normal_task_done
    \/ receive_need_back_to_source
    \/ need_back_to_source_done
    \/ receive_stream_end
    \/ \E kind \in {"stream_error", "unexpected_response"} : receive_error(kind)
    \/ download_partial_from_source_into_file_done

\* The runtime keeps polling download_into_file: every fetch and every send
\* returns, and the scheduler stream yields a response or its end.
SpecLive ==
    /\ Spec
    /\ WF_<<pc, idx>>(piece_iteration_returns)
    /\ WF_vars(orchestrator_step)

\* The caller of download_task goes away while download_into_file runs: the
\* receiver of download_progress_tx is dropped and every send on it fails.
download_progress_rx_dropped ==
    /\ pc \notin {"off", "done"}
    /\ download_progress_tx = "open"
    /\ download_progress_tx' = "closed"
    /\ UNCHANGED <<storageVars, callerVars, orchVars, download, tlen, chead, requests>>

NextCancel == Next \/ download_progress_rx_dropped

\* download_into_file under a caller that may cancel.
SpecCancel == Init /\ [][NextCancel]_vars

\* ------------------------------------------- concurrent callers of Storage


\* What an origin may answer to the ranged GET of piece n: the range, a
\* truncated body, or more than the range.
SourceStreams(n) ==
    LET b == OriginBytes(PieceOffset(n), PieceLen(n))
    IN  {b, SubSeq(b, 1, Len(b) - 1), b \o <<255>>}

\* What a parent may deliver for piece n: the bytes, or damaged bytes.
RemoteStreams(n) ==
    LET b == OriginBytes(PieceOffset(n), PieceLen(n))
    IN  {b, Corrupt(b)}

\* The caller's frame is dropped: its locals are gone.
caller_returns(c) ==
    /\ cpc' = [cpc EXCEPT ![c] = "idle"]
    /\ cnum' = [cnum EXCEPT ![c] = 0]
    /\ cpolls' = [cpolls EXCEPT ![c] = 0]
    /\ csaw' = [csaw EXCEPT ![c] = FALSE]
    /\ cheld' = [cheld EXCEPT ![c] = FALSE]
    /\ cargs' = [cargs EXCEPT ![c] = NoArgs]
    /\ cresp' = [cresp EXCEPT ![c] = NoResp]
    /\ cres' = [cres EXCEPT ![c] = "none"]
    /\ cupl' = [cupl EXCEPT ![c] = <<>>]

\* The pieces the concurrent callers contend for.
ContendedPieces == {n \in PieceNums : n < 2}

\* A caller enters Storage::download_piece_started, that is
\* wait_for_piece_finished: timeout armed, interval created.
download_piece_started_enter(c, n) ==
    /\ cpc[c] = "idle"
    /\ cattempts < MaxAttempts
    /\ cpc' = [cpc EXCEPT ![c] = "wait"]
    /\ cnum' = [cnum EXCEPT ![c] = n]
    /\ cpolls' = [cpolls EXCEPT ![c] = 0]
    /\ csaw' = [csaw EXCEPT ![c] = FALSE]
    /\ cheld' = [cheld EXCEPT ![c] = FALSE]
    /\ cattempts' = cattempts + 1
    /\ UNCHANGED <<storageVars, cargs, cresp, cres, cupl, dpc>>
    /\ UNCHANGED <<orchVars, preflightVars>>

\* A poll that takes any record it finds for a finished one.
wait_for_piece_finished_tick_any_record(c) ==
    /\ cpc[c] = "wait"
    /\ cpolls[c] < MaxPolls
    /\ LET piece == pieces[cnum[c]] IN
       /\ cpc' = [cpc EXCEPT ![c] =
                    IF piece.state = "Absent" THEN "PieceNotFound" ELSE "started"]
       /\ csaw' = [csaw EXCEPT ![c] = @ \/ piece.state = "Pending"]
    /\ cpolls' = [cpolls EXCEPT ![c] = @ + 1]
    /\ UNCHANGED <<storageVars, cnum, cheld, cargs, cresp, cres, cattempts>>
    /\ UNCHANGED <<orchVars, preflightVars, cupl, dpc>>

\* interval.tick(): no record is PieceNotFound, a finished record is Ok,
\* anything else keeps waiting.
wait_for_piece_finished_tick(c) ==
    /\ cpc[c] = "wait"
    /\ cpolls[c] < MaxPolls
    /\ LET piece == pieces[cnum[c]] IN
       /\ cpc' = [cpc EXCEPT ![c] =
                    IF piece.state = "Absent" THEN "PieceNotFound"
                    ELSE IF is_finished(piece) THEN "started"
                    ELSE "wait"]
       /\ csaw' = [csaw EXCEPT ![c] = @ \/ piece.state = "Pending"]
    /\ cpolls' = [cpolls EXCEPT ![c] = @ + 1]
    /\ UNCHANGED <<storageVars, cnum, cheld, cargs, cresp, cres, cattempts>>
    /\ UNCHANGED <<orchVars, preflightVars, cupl, dpc>>

wait_for_piece_finished_timeout_before_tick(c) ==
    /\ cpc[c] = "wait"
    /\ cpc' = [cpc EXCEPT ![c] = "WaitForPieceFinishedTimeout"]
    /\ UNCHANGED <<storageVars, cnum, cpolls, csaw, cheld, cargs, cresp, cres, cattempts>>
    /\ UNCHANGED <<orchVars, preflightVars, cupl, dpc>>

\* piece_timeout elapses; the first tick of an interval is immediate, so
\* the timeout follows at least one tick.
wait_for_piece_finished_timeout(c) ==
    /\ cpc[c] = "wait"
    /\ cpolls[c] >= 1
    /\ cpc' = [cpc EXCEPT ![c] = "WaitForPieceFinishedTimeout"]
    /\ UNCHANGED <<storageVars, cnum, cpolls, csaw, cheld, cargs, cresp, cres, cattempts>>
    /\ UNCHANGED <<orchVars, preflightVars, cupl, dpc>>

\* Err(_) => self.metadata.download_piece_started(task_id, number)
download_piece_started_reserve(c) ==
    /\ cpc[c] \in {"PieceNotFound", "WaitForPieceFinishedTimeout"}
    /\ pieces' = metadata_download_piece_started(pieces, cnum[c])
    /\ cpc' = [cpc EXCEPT ![c] = "started"]
    /\ cheld' = [cheld EXCEPT ![c] = TRUE]
    /\ UNCHANGED <<content, cnum, cpolls, csaw, cargs, cresp, cres, cattempts>>
    /\ UNCHANGED <<orchVars, preflightVars, cupl, dpc>>

\* download_piece_from_source_finished up to the end of content.write_piece.
download_piece_from_source_finished_write(c, reader) ==
    /\ cpc[c] = "started"
    /\ content' = content_write_piece(content, PieceOffset(cnum[c]), reader)
    /\ cresp' = [cresp EXCEPT ![c] = write_piece_response(reader)]
    /\ cargs' = [cargs EXCEPT ![c] = [kind |-> "source", offset |-> PieceOffset(cnum[c]),
                    length |-> PieceLen(cnum[c]), expected |-> <<>>, parent |-> NoParent]]
    /\ cpc' = [cpc EXCEPT ![c] = "written"]
    /\ UNCHANGED <<pieces, cnum, cpolls, csaw, cheld, cres, cattempts>>
    /\ UNCHANGED <<orchVars, preflightVars, cupl, dpc>>

\* download_piece_from_remote_peer_finished up to the end of content.write_piece.
download_piece_from_remote_peer_finished_write(c, reader, par) ==
    /\ cpc[c] = "started"
    /\ content' = content_write_piece(content, PieceOffset(cnum[c]), reader)
    /\ cresp' = [cresp EXCEPT ![c] = write_piece_response(reader)]
    /\ cargs' = [cargs EXCEPT ![c] = [kind |-> "remote", offset |-> PieceOffset(cnum[c]),
                    length |-> 0, parent |-> par,
                    expected |-> DigestToString(Sha256(
                        OriginBytes(PieceOffset(cnum[c]), PieceLen(cnum[c]))))]]
    /\ cpc' = [cpc EXCEPT ![c] = "written"]
    /\ UNCHANGED <<pieces, cnum, cpolls, csaw, cheld, cres, cattempts>>
    /\ UNCHANGED <<orchVars, preflightVars, cupl, dpc>>

\* The rest of the finished call: digest check (remote peer) and commit.
download_piece_finished_commit(c) ==
    /\ cpc[c] = "written"
    /\ LET a == cargs[c]
           r == IF a.kind = "source"
                THEN source_commit(pieces, cnum[c], a.offset, a.length, cresp[c])
                ELSE remote_peer_commit(pieces, cnum[c], a.offset, a.expected,
                                        a.parent, cresp[c])
       IN  /\ pieces' = r.pieces
           /\ cres' = [cres EXCEPT ![c] = r.res]
    /\ cpc' = [cpc EXCEPT ![c] = "returned"]
    /\ UNCHANGED <<content, cnum, cpolls, csaw, cheld, cargs, cresp, cattempts>>
    /\ UNCHANGED <<orchVars, preflightVars, cupl, dpc>>

\* Storage::download_piece_failed, called by a writer whose fetch or
\* finished call failed.
download_piece_failed(c) ==
    /\ \/ cpc[c] = "started"
       \/ cpc[c] = "returned" /\ cres[c] # "Ok"
    /\ pieces' = metadata_download_piece_failed(pieces, cnum[c])
    /\ caller_returns(c)
    /\ UNCHANGED <<content, cattempts, dpc>>
    /\ UNCHANGED <<orchVars, preflightVars>>

\* The writer is done with a piece it committed.
download_piece_done(c) ==
    /\ cpc[c] = "returned"
    /\ cres[c] = "Ok"
    /\ caller_returns(c)
    /\ UNCHANGED <<storageVars, cattempts, dpc>>
    /\ UNCHANGED <<orchVars, preflightVars>>

\* The concurrent callers start on an empty store of a task in progress.
InitStorage ==
    /\ pieces = [n \in PieceNums |-> AbsentPiece]
    /\ content = <<>>
    /\ CallersIdle
    /\ OrchestratorOff
    /\ PreflightOff

NextStorage ==
    \E c \in Callers :
        \/ \E n \in ContendedPieces : download_piece_started_enter(c, n)
        \/ wait_for_piece_finished_tick(c)
        \/ wait_for_piece_finished_timeout(c)
        \/ download_piece_started_reserve(c)
        \/ \E reader \in SourceStreams(cnum[c]) :
               download_piece_from_source_finished_write(c, reader)
        \/ \E reader \in RemoteStreams(cnum[c]), par \in Parents :
               download_piece_from_remote_peer_finished_write(c, reader, par)
        \/ download_piece_finished_commit(c)
        \/ download_piece_failed(c)
        \/ download_piece_done(c)

SpecStorage == InitStorage /\ [][NextStorage]_vars

\* The callers of download_piece_started with writers that fetch from the
\* origin only.
NextWait ==
    \E c \in Callers :
        \/ \E n \in ContendedPieces : download_piece_started_enter(c, n)
        \/ wait_for_piece_finished_tick(c)
        \/ wait_for_piece_finished_timeout(c)
        \/ download_piece_started_reserve(c)
        \/ \E reader \in SourceStreams(cnum[c]) :
               download_piece_from_source_finished_write(c, reader)
        \/ download_piece_finished_commit(c)
        \/ download_piece_failed(c)
        \/ download_piece_done(c)

\* The timers of the runtime fire: a caller inside wait_for_piece_finished
\* gets its next interval tick or its piece_timeout.
SpecStorageLive ==
    /\ InitStorage /\ [][NextWait]_vars
    /\ \A c \in Callers :
           WF_vars(wait_for_piece_finished_tick(c) \/ wait_for_piece_finished_timeout(c))

\* ------------------------------------------ upload_piece and delete_task

\* upload_piece up to its wait (lines 171-178): upload_task_started,
\* upload_piece_started, then wait_for_piece_finished is entered.
upload_piece_enter(c, n) ==
    /\ cpc[c] = "idle"
    /\ cattempts < MaxAttempts
    /\ cpc' = [cpc EXCEPT ![c] = "upload_wait"]
    /\ cnum' = [cnum EXCEPT ![c] = n]
    /\ cpolls' = [cpolls EXCEPT ![c] = 0]
    /\ cupl' = [cupl EXCEPT ![c] = <<"upload_task_started", "upload_piece_started">>]
    /\ cattempts' = cattempts + 1
    /\ UNCHANGED <<storageVars, csaw, cheld, cargs, cresp, cres, dpc>>
    /\ UNCHANGED <<orchVars, preflightVars>>

\* interval.tick() of the wait inside upload_piece: PieceNotFound leaves
\* upload_piece through `?` (line 178); a finished record goes on to the
\* lookup.
upload_piece_tick(c) ==
    /\ cpc[c] = "upload_wait"
    /\ cpolls[c] < MaxPolls
    /\ LET piece == pieces[cnum[c]] IN
       /\ cpc' = [cpc EXCEPT ![c] =
                    IF piece.state = "Absent" THEN "upload_returned"
                    ELSE IF is_finished(piece) THEN "upload_get"
                    ELSE "upload_wait"]
       /\ cres' = [cres EXCEPT ![c] =
                    IF piece.state = "Absent" THEN "PieceNotFound" ELSE @]
    /\ cpolls' = [cpolls EXCEPT ![c] = @ + 1]
    /\ UNCHANGED <<storageVars, cnum, csaw, cheld, cargs, cresp, cattempts, cupl, dpc>>
    /\ UNCHANGED <<orchVars, preflightVars>>

\* piece_timeout elapses inside upload_piece: WaitForPieceFinishedTimeout
\* leaves upload_piece through `?` (line 178).
upload_piece_timeout(c) ==
    /\ cpc[c] = "upload_wait"
    /\ cpolls[c] >= 1
    /\ cpc' = [cpc EXCEPT ![c] = "upload_returned"]
    /\ cres' = [cres EXCEPT ![c] = "WaitForPieceFinishedTimeout"]
    /\ UNCHANGED <<storageVars, cnum, cpolls, csaw, cheld, cargs, cresp, cattempts, cupl,
                   dpc>>
    /\ UNCHANGED <<orchVars, preflightVars>>

\* The lookup after the wait (lines 181-203): Some(piece) reads the content
\* at piece.offset and piece.length and finishes the upload; a failed read
\* leaves through `?`; None fails the upload and returns PieceNotFound.
upload_piece_get(c, read_ok) ==
    /\ cpc[c] = "upload_get"
    /\ LET piece == pieces[cnum[c]] IN
       IF piece.state = "Absent" THEN
            /\ cupl' = [cupl EXCEPT ![c] = @ \o <<"upload_piece_failed",
                                                  "upload_task_failed">>]
            /\ cres' = [cres EXCEPT ![c] = "PieceNotFound"]
            /\ UNCHANGED cargs
       ELSE IF ~read_ok THEN
            /\ cres' = [cres EXCEPT ![c] = "IoError"]
            /\ UNCHANGED <<cupl, cargs>>
       ELSE /\ cupl' = [cupl EXCEPT ![c] = @ \o <<"upload_piece_finished",
                                                  "upload_task_finished">>]
            /\ cres' = [cres EXCEPT ![c] = "Ok"]
            /\ cargs' = [cargs EXCEPT ![c] = [kind |-> "upload", offset |-> piece.offset,
                            length |-> piece.length, expected |-> piece.digest,
                            parent |-> piece.parent]]
    /\ cpc' = [cpc EXCEPT ![c] = "upload_returned"]
    /\ UNCHANGED <<storageVars, cnum, cpolls, csaw, cheld, cresp, cattempts, dpc>>
    /\ UNCHANGED <<orchVars, preflightVars>>

\* The caller of upload_piece is done with its result.
upload_piece_done(c) ==
    /\ cpc[c] = "upload_returned"
    /\ caller_returns(c)
    /\ UNCHANGED <<storageVars, cattempts, dpc>>
    /\ UNCHANGED <<orchVars, preflightVars>>

\* Storage::delete_task, one store call per step (lines 93-95):
\* metadata.delete_task, metadata.delete_pieces, content.delete_task. A
\* call that fails returns its error through `?`: the calls after it are
\* not made and the calls before it are not undone.
delete_task(ok) ==
    /\ dpc \in {"idle", "task_deleted", "pieces_deleted"}
    /\ IF ~ok THEN
            /\ dpc' = "failed"
            /\ UNCHANGED <<task, storageVars>>
       ELSE IF dpc = "idle" THEN
            /\ task' = "Absent"
            /\ dpc' = "task_deleted"
            /\ UNCHANGED storageVars
       ELSE IF dpc = "task_deleted" THEN
            /\ pieces' = [n \in PieceNums |-> AbsentPiece]
            /\ dpc' = "pieces_deleted"
            /\ UNCHANGED <<task, content>>
       ELSE /\ content' = <<>>
            /\ dpc' = "done"
            /\ UNCHANGED <<task, pieces>>
    /\ UNCHANGED <<cpc, cnum, cpolls, csaw, cheld, cargs, cresp, cres, cattempts, cupl>>
    /\ UNCHANGED <<orchRest, preflightVars>>

\* Storage::download_task_finished (lines 67-69): forwards to the metadata
\* store.
download_task_finished ==
    /\ task = "InProgress"
    /\ task' = metadata_download_task_finished(task)
    /\ UNCHANGED <<storageVars, callerVars, preflightVars>>
    /\ UNCHANGED orchRest

\* Uploads, downloads and one delete_task on a store that holds any of the
\* contended pieces committed.
InitUpload ==
    /\ \E S \in SUBSET ContendedPieces :
          /\ pieces = [n \in PieceNums |-> IF n \in S THEN CommittedPiece(n)
                                                      ELSE AbsentPiece]
          /\ content = ContentOf(S)
    /\ CallersIdle
    /\ OrchestratorOff
    /\ PreflightOff

NextUpload ==
    \/ \E ok \in BOOLEAN : delete_task(ok)
    \/ download_task_finished
    \/ \E c \in Callers :
           \/ \E n \in ContendedPieces : upload_piece_enter(c, n)
           \/ upload_piece_tick(c)
           \/ upload_piece_timeout(c)
           \/ \E read_ok \in BOOLEAN : upload_piece_get(c, read_ok)
           \/ upload_piece_done(c)
           \/ \E n \in ContendedPieces : download_piece_started_enter(c, n)
           \/ wait_for_piece_finished_tick(c)
           \/ wait_for_piece_finished_timeout(c)
           \/ download_piece_started_reserve(c)
           \/ \E reader \in SourceStreams(cnum[c]) :
                  download_piece_from_source_finished_write(c, reader)
           \/ download_piece_finished_commit(c)
           \/ download_piece_failed(c)
           \/ download_piece_done(c)

SpecUpload == InitUpload /\ [][NextUpload]_vars

\* -------------------------------- Task::get_content_length and the backend

\* Content lengths the origin may announce.
Lengths == {ContentLength, ContentLength + 1}

Digits == <<"0", "1", "2", "3", "4", "5", "6", "7", "8", "9">>
IsDigit(ch) == \E i \in 1..10 : Digits[i] = ch
DigitValue(ch) == (CHOOSE i \in 1..10 : Digits[i] = ch) - 1

\* The decimal text of n, as the origin writes it in Content-Length.
RECURSIVE ToDecimal(_)
ToDecimal(n) ==
    IF n < 10 THEN <<Digits[n + 1]>>
    ELSE ToDecimal(n \div 10) \o <<Digits[(n % 10) + 1]>>

\* str::parse::<u64>: an empty text or a character that is no digit fails.
RECURSIVE parse_u64_from(_, _)
parse_u64_from(text, acc) ==
    IF text = <<>> THEN acc
    ELSE parse_u64_from(Tail(text), acc * 10 + DigitValue(Head(text)))
\* A parse that stops at the first character that is no digit.
parse_u64_lenient(text) ==
    IF text = <<>> \/ ~IsDigit(Head(text))
    THEN [ok |-> FALSE, value |-> 0]
    ELSE [ok |-> TRUE, value |-> DigitValue(Head(text))]
parse_u64(text) ==
    IF text = <<>> \/ \E i \in 1..Len(text) : ~IsDigit(text[i])
    THEN [ok |-> FALSE, value |-> 0]
    ELSE [ok |-> TRUE, value |-> parse_u64_from(text, 0)]

\* What the origin answers to a request: nothing (unreachable), or a status
\* with or without a Content-Length header.
HeaderTexts == {ToDecimal(n) : n \in Lengths} \cup {<<>>, <<"5", "x">>}
StatusCodes == {200, 404}
OriginResponses ==
    {[reachable |-> FALSE, status |-> 0, has_length |-> FALSE, text |-> <<>>]}
    \cup {[reachable |-> TRUE, status |-> st, has_length |-> FALSE, text |-> <<>>] :
            st \in StatusCodes}
    \cup {[reachable |-> TRUE, status |-> st, has_length |-> TRUE, text |-> tx] :
            st \in StatusCodes, tx \in HeaderTexts}

\* A backend that sends the request although it carries no http_header.
backend_request_without_header_check(has_header, client_ok, origin) ==
    IF ~client_ok
    THEN [ok |-> FALSE, error |-> "Reqwest", sent |-> 0, success |-> FALSE,
          http_status_code |-> 0, has_length |-> FALSE, text |-> <<>>]
    ELSE IF ~origin.reachable
    THEN [ok |-> FALSE, error |-> "Reqwest", sent |-> 1, success |-> FALSE,
          http_status_code |-> 0, has_length |-> FALSE, text |-> <<>>]
    ELSE [ok |-> TRUE, error |-> "none", sent |-> 1,
          success |-> (200 <= origin.status /\ origin.status < 300),
          http_status_code |-> origin.status,
          has_length |-> origin.has_length, text |-> origin.text]

\* HTTP::head and HTTP::get up to the response: the header of the request is
\* required, then the client is built, then one GET request is sent; any
\* status the origin answers comes back in an Ok response.
backend_request(has_header, client_ok, origin) ==
    IF ~has_header
    THEN [ok |-> FALSE, error |-> "InvalidParameter", sent |-> 0, success |-> FALSE,
          http_status_code |-> 0, has_length |-> FALSE, text |-> <<>>]
    ELSE backend_request_without_header_check(has_header, client_ok, origin)

\* What a caller holds of a backend call: the response, the length parsed
\* from it, and of the request whether it had a header, whether its client
\* could be built, the status the origin answered with and the requests that
\* went out.
HeldResponse(r, v, has_header, client_ok, origin) ==
    [ok |-> r.ok, error |-> r.error, success |-> r.success,
     http_status_code |-> r.http_status_code, value |-> v,
     has_header |-> has_header,
     client_ok |-> client_ok,
     origin |-> IF origin.reachable THEN origin.status ELSE 0,
     sent |-> r.sent]

length_call_returns(c, res, held) ==
    /\ cpc' = [cpc EXCEPT ![c] = "length_returned"]
    /\ cres' = [cres EXCEPT ![c] = res]
    /\ chead' = [chead EXCEPT ![c] = held]

\* A get_content_length that asks the origin although the length is cached.
get_content_length_enter_uncached(c, get_ok) ==
    /\ cpc[c] = "idle"
    /\ cattempts < MaxAttempts
    /\ cattempts' = cattempts + 1
    /\ IF ~get_ok THEN length_call_returns(c, "StorageError", NoHead)
       ELSE IF task = "Absent" THEN length_call_returns(c, "TaskNotFound", NoHead)
       ELSE /\ cpc' = [cpc EXCEPT ![c] = "head"]
            /\ UNCHANGED <<cres, chead>>
    /\ UNCHANGED <<storageVars, orchVars, download_progress_tx, download, tlen, requests,
                   cnum, cpolls, csaw, cheld, cargs, cresp, cupl, dpc>>

\* Task::get_content_length up to the HEAD request: the task is looked up,
\* and a content_length it already has is returned.
get_content_length_enter(c, get_ok) ==
    IF get_ok /\ task # "Absent" /\ tlen.set
    THEN /\ cpc[c] = "idle"
         /\ cattempts < MaxAttempts
         /\ cattempts' = cattempts + 1
         /\ length_call_returns(c, "Ok", [NoHead EXCEPT !.value = tlen.value])
         /\ UNCHANGED <<storageVars, orchVars, download_progress_tx, download, tlen, requests,
                        cnum, cpolls, csaw, cheld, cargs, cresp, cupl, dpc>>
    ELSE get_content_length_enter_uncached(c, get_ok)

\* The HEAD request of get_content_length and the parse of Content-Length.
get_content_length_head(c, client_ok, origin) ==
    /\ cpc[c] = "head"
    /\ LET r == backend_request(TRUE, client_ok, origin)
           parsed == parse_u64(r.text)
       IN /\ requests' = requests + r.sent
          /\ IF ~r.ok
             THEN length_call_returns(c, r.error, HeldResponse(r, 0, TRUE, client_ok, origin))
             ELSE IF ~r.has_length \/ ~parsed.ok
             THEN length_call_returns(c, "InvalidContentLength",
                                      HeldResponse(r, 0, TRUE, client_ok, origin))
             ELSE /\ cpc' = [cpc EXCEPT ![c] = "set"]
                  /\ chead' = [chead EXCEPT ![c] =
                                  HeldResponse(r, parsed.value, TRUE, client_ok, origin)]
                  /\ UNCHANGED cres
    /\ UNCHANGED <<storageVars, orchVars, download_progress_tx, download, tlen,
                   cnum, cpolls, csaw, cheld, cargs, cresp, cattempts, cupl, dpc>>

\* The end of get_content_length: the parsed length is stored and returned.
get_content_length_set(c) ==
    /\ cpc[c] = "set"
    /\ LET r == storage_set_task_content_length(task, tlen, chead[c].value)
       IN /\ tlen' = r.content_length
          /\ length_call_returns(c, r.res, chead[c])
    /\ UNCHANGED <<storageVars, orchVars, download_progress_tx, download, requests,
                   cnum, cpolls, csaw, cheld, cargs, cresp, cattempts, cupl, dpc>>

\* A caller of Storage::set_task_content_length.
set_task_content_length(c, n) ==
    /\ cpc[c] = "idle"
    /\ cattempts < MaxAttempts
    /\ cattempts' = cattempts + 1
    /\ LET r == storage_set_task_content_length(task, tlen, n)
       IN /\ tlen' = r.content_length
          /\ cpc' = [cpc EXCEPT ![c] = "set_returned"]
          /\ cres' = [cres EXCEPT ![c] = r.res]
          /\ chead' = [chead EXCEPT ![c] = [NoHead EXCEPT !.value = n]]
    /\ UNCHANGED <<storageVars, orchVars, download_progress_tx, download, requests,
                   cnum, cpolls, csaw, cheld, cargs, cresp, cupl, dpc>>

\* A caller of HTTP::head or HTTP::get.
backend_call(c, method, has_header, client_ok, origin) ==
    /\ cpc[c] = "idle"
    /\ cattempts < MaxAttempts
    /\ cattempts' = cattempts + 1
    /\ LET r == backend_request(has_header, client_ok, origin)
       IN /\ requests' = requests + r.sent
          /\ cpc' = [cpc EXCEPT ![c] = method]
          /\ cres' = [cres EXCEPT ![c] = IF r.ok THEN "Ok" ELSE r.error]
          /\ chead' = [chead EXCEPT ![c] = HeldResponse(r, 0, has_header, client_ok, origin)]
    /\ UNCHANGED <<storageVars, orchVars, download_progress_tx, download, tlen,
                   cnum, cpolls, csaw, cheld, cargs, cresp, cupl, dpc>>

\* The caller takes the result and is free for its next call.
length_call_done(c) ==
    /\ cpc[c] \in {"length_returned", "set_returned", "head_returned", "get_returned"}
    /\ caller_returns(c)
    /\ chead' = [chead EXCEPT ![c] = NoHead]
    /\ UNCHANGED <<storageVars, orchVars, download_progress_tx, download, tlen, requests, cattempts, dpc>>

\* Two callers resolve the content length of a task whose record is absent,
\* has no content_length yet, or has one.
InitContentLength ==
    /\ pieces = [n \in PieceNums |-> AbsentPiece]
    /\ content = <<>>
    /\ CallersIdle
    /\ OrchestratorAt("off")
    /\ download = [piece_length |-> PieceLength, content_length |-> ContentLength]
    /\ \E t \in {"Absent", "InProgress"},
          l \in {NoContentLength} \cup {SomeContentLength(n) : n \in Lengths} :
          /\ t = "Absent" => l = NoContentLength
          /\ task = t
          /\ tlen = l
    /\ chead = [c \in Callers |-> NoHead]
    /\ requests = 0
    /\ download_progress_tx = "open"

NextContentLength ==
    \E c \in Callers :
        \/ \E get_ok \in BOOLEAN : get_content_length_enter(c, get_ok)
        \/ \E client_ok \in BOOLEAN, origin \in OriginResponses :
               get_content_length_head(c, client_ok, origin)
        \/ get_content_length_set(c)
        \/ \E n \in Lengths : set_task_content_length(c, n)
        \/ \E method \in {"head_returned", "get_returned"},
              has_header \in BOOLEAN, client_ok \in BOOLEAN,
              origin \in OriginResponses :
               backend_call(c, method, has_header, client_ok, origin)
        \/ length_call_done(c)

SpecContentLength == InitContentLength /\ [][NextContentLength]_vars

\* ----------------------------------------- planning of the pieces to fetch

MaxPieceLength == PieceLength + 1
MaxContentLength == ContentLength + 1
MaxPieceNumber == 3

RECURSIVE Reverse(_)
Reverse(seq) == IF seq = <<>> THEN <<>> ELSE Reverse(Tail(seq)) \o <<Head(seq)>>

\* The numbers of S in ascending order.
RECURSIVE Ascending(_)
Ascending(S) ==
    IF S = {} THEN <<>>
    ELSE LET m == CHOOSE x \in S : \A y \in S : x <= y
         IN <<m>> \o Ascending(S \ {m})

\* Lists of finished pieces: any set of piece numbers, in either order.
FinishedLists ==
    LET asc(S) == [i \in 1 .. Cardinality(S) |->
                      [number |-> Ascending(S)[i],
                       offset |-> Ascending(S)[i] * download.piece_length,
                       length |-> download.piece_length]]
    IN  {asc(S) : S \in SUBSET (0 .. MaxPieceNumber)}
        \cup {Reverse(asc(S)) : S \in SUBSET (0 .. MaxPieceNumber)}

\* remove_finished_from_interested applied to a list of finished pieces and
\* the interested pieces, taken in the order calculated or in the reverse
\* order (call sites: lines 267-274 and 520-523).
apply_remove_finished_from_interested(fin, reversed) ==
    /\ pc = "get_task"
    /\ LET intr == IF reversed THEN Reverse(interested) ELSE interested IN
       /\ interested' = intr
       /\ finished' = fin
       /\ work' = remove_finished_from_interested(fin, intr)
    /\ pc' = "removed"
    /\ UNCHANGED <<storageVars, callerVars, preflightVars, task, idx, fpos, file, sent,
                   sched, responses, faults, log>>

\* The request gives any piece_length and content_length up to the bounds.
InitPlan ==
    /\ pieces = [n \in PieceNums |-> AbsentPiece]
    /\ content = <<>>
    /\ task = "InProgress"
    /\ CallersIdle
    /\ OrchestratorAt("calculate")
    /\ download \in [piece_length : 0 .. MaxPieceLength,
                     content_length : 0 .. MaxContentLength]
    /\ tlen = SomeContentLength(download.content_length)
    /\ chead = [c \in Callers |-> NoHead]
    /\ requests = 0
    /\ download_progress_tx = "open"

NextPlan ==
    \/ calculate_interested_pieces(download.piece_length)
    \/ \E fin \in FinishedLists, reversed \in BOOLEAN :
           apply_remove_finished_from_interested(fin, reversed)

SpecPlan == InitPlan /\ [][NextPlan]_vars

\* ------------------------------------------------------------------ claims

\* A caller that reserved the piece and has not yet left its finished call.
Writer(c) == cheld[c] /\ cpc[c] \in {"started", "written"}

\* The record a caller's finished call asks the metadata store to commit.
CommitRecord(c) ==
    FinishedPiece(cargs[c].offset,
                  IF cargs[c].kind = "source" THEN cargs[c].length ELSE cresp[c].length,
                  DigestToString(cresp[c].hash), cargs[c].parent)

\* The step in which caller c's finished call returns.
CommitStep(c) == cpc[c] = "written" /\ cpc'[c] = "returned"

\* C1: a caller of Storage.download_piece_started that found a pending
\* record of (task_id, number) never becomes a writer of that piece while
\* another caller holds the reservation and is writing it.
C1_PieceSingleton ==
    \A c \in Callers :
        (Writer(c) /\ csaw[c]) =>
            \A d \in Callers \ {c} : ~(Writer(d) /\ cnum[d] = cnum[c])

\* C2: for every committed piece P, the hash of the content-store bytes at
\* [P.offset, P.offset + P.length) equals P.digest.
C2_CommittedDigestMatchesContent ==
    \A n \in PieceNums :
        is_finished(pieces[n]) =>
            DigestToString(Sha256(content_read_piece(content, pieces[n].offset,
                                                     pieces[n].length)))
                = pieces[n].digest

\* C3: download_piece_from_remote_peer_finished returns PieceDigestMismatch
\* and leaves the metadata as it was whenever the hash of the streamed bytes
\* differs from expected_digest; it changes the piece record only when the
\* two are equal, and then to a Finished record.
C3_RemotePeerDigestCheck ==
    [][\A c \in Callers :
          (CommitStep(c) /\ cargs[c].kind = "remote") =>
              LET streamed == DigestToString(cresp[c].hash) IN
              /\ streamed # cargs[c].expected =>
                     (cres'[c] = "PieceDigestMismatch" /\ pieces' = pieces)
              /\ streamed = cargs[c].expected => cres'[c] # "PieceDigestMismatch"
              /\ pieces' # pieces =>
                     /\ streamed = cargs[c].expected
                     /\ cres'[c] = "Ok"
                     /\ pieces'[cnum[c]] = CommitRecord(c)]_vars

\* C3 witness: one remote-peer finished call returned PieceDigestMismatch
\* with its piece uncommitted, another returned Ok with its piece committed.
C3_Witness ==
    \E c, d \in Callers :
        /\ cpc[c] = "returned" /\ cargs[c].kind = "remote"
        /\ cres[c] = "PieceDigestMismatch" /\ ~is_finished(pieces[cnum[c]])
        /\ cpc[d] = "returned" /\ cargs[d].kind = "remote"
        /\ cres[d] = "Ok" /\ pieces[cnum[d]] = CommitRecord(d)

\* C4: a committed piece record never changes, and a finished call for a
\* committed piece whose offset, length, digest or parent_id differs from
\* the committed record fails.
C4_SingleCommitRecord ==
    [][\A n \in PieceNums :
          is_finished(pieces[n]) =>
              /\ pieces'[n] = pieces[n]
              /\ \A c \in Callers :
                     (CommitStep(c) /\ cnum[c] = n /\ CommitRecord(c) # pieces[n])
                         => cres'[c] \in {"Err", "PieceDigestMismatch"}]_vars

\* C4 witness: a finished call for a committed piece was refused because
\* its fields differ from the committed record.
C4_Witness ==
    \E c \in Callers :
        /\ cpc[c] = "returned" /\ cres[c] = "Err"
        /\ is_finished(pieces[cnum[c]])
        /\ CommitRecord(c) # pieces[cnum[c]]

\* C5: every piece written into the output file, in the local drain, the
\* NormalTask fetch, the NeedBackToSource fetch and the pure-source
\* fallback, is written starting at that piece's own offset.
C5_WritesAtPieceOffset ==
    \A i \in 1 .. Len(log.writes) : log.writes[i].at = log.writes[i].offset

\* C6: for a task already Finished in local storage, one download_into_file
\* that meets no failure emits exactly one successful progress event per
\* interested piece, LocalPeer, in interested order.
C6_FinishedTaskDrainedOnce ==
    (pc = "done" /\ task = "Finished" /\ faults = 0 /\ Len(ProgressEvents) = Len(Events)
        /\ Len(Events) > 0)
    => LET want == calculate_interested(PieceLength, ContentLength).pieces IN
       /\ Len(ProgressEvents) = Len(want)
       /\ \A i \in 1 .. Len(want) :
              /\ ProgressEvents[i].number = want[i].number
              /\ ProgressEvents[i].traffic = "LocalPeer"

\* C7: the pure-source fallback fetches only pieces that were not finished
\* earlier in the invocation, so no successful progress event of the
\* fallback repeats the piece number of an earlier one.
C7_FallbackFetchesResidualOnly ==
    /\ \A i \in 1 .. Len(log.fetches) :
           log.fetches[i].phase = "source" => log.fetches[i].residual
    /\ \A j \in 1 .. Len(sent) :
           (sent[j].kind = "progress" /\ sent[j].phase = "source") =>
               \A i \in 1 .. (j - 1) :
                   ~(sent[i].kind = "progress" /\ sent[i].number = sent[j].number)

FailedRequests == SelectSeq(sent, LAMBDA m : m.kind = "DownloadPieceFailedRequest")

\* C8: while a NormalTask response is handled, every failure to fetch or to
\* write-and-verify an assigned piece sends DownloadPieceFailedRequest
\* {piece_number, parent_id, temporary: true} and does not abort the
\* scheduler session.
C8_NormalTaskFailureReported ==
    /\ Len(FailedRequests) = Len(log.failures)
    /\ \A i \in 1 .. Len(log.failures) :
           /\ FailedRequests[i].number = log.failures[i].number
           /\ FailedRequests[i].parent = log.failures[i].parent
           /\ FailedRequests[i].status = "temporary"
           /\ ~log.failures[i].aborted

\* C9: when the NeedBackToSource handling ends with every interested piece
\* of the scheduler phase finished, the phase returns success.
C9_BackToSourceCompletionReturns ==
    \A i \in 1 .. Len(log.passes) :
        (log.passes[i].phase = "back_to_source" /\ log.passes[i].all_finished)
            => log.passes[i].returned

\* C10: at most one error event is sent on the progress channel, and it is
\* the last event of the invocation.
C10_ErrorEventIsLast ==
    \A i \in 1 .. Len(Events) : Events[i].kind = "error" => i = Len(Events)

\* C10 witness: an invocation that reported pieces, lost the scheduler
\* phase and then failed in the pure-source fallback.
C10_Witness ==
    /\ pc = "done"
    /\ sched \notin {"none", "open", "Ok"}
    /\ Len(Events) >= 2
    /\ Events[Len(Events)].kind = "error"
    /\ Events[1].kind = "progress"

\* C11: every successful progress event refers to a piece that is committed
\* (Finished) in storage when the event is emitted, reports the offset,
\* length and digest of the committed record, and that digest is the hash
\* of the bytes the content store holds for the piece: bytes that failed
\* the digest verification are never reported.
C11_ProgressEventIsCommitted ==
    [][\A i \in (Len(sent) + 1) .. Len(sent') :
          sent'[i].kind = "progress" =>
              LET m == sent'[i]
                  rec == pieces'[m.number]
              IN  /\ is_finished(rec)
                  /\ m.offset = rec.offset
                  /\ m.length = rec.length
                  /\ m.digest = rec.digest
                  /\ m.digest = DigestToString(Sha256(
                         content_read_piece(content', rec.offset, rec.length)))]_vars

\* C11 witness: a piece whose fetch was refused (DownloadPieceFailedRequest)
\* was fetched again and then reported with its committed record.
C11_Witness ==
    \E i, j \in 1 .. Len(sent) :
        /\ i < j
        /\ sent[i].kind = "DownloadPieceFailedRequest"
        /\ sent[j].kind = "progress"
        /\ sent[j].number = sent[i].number
        /\ is_finished(pieces[sent[j].number])
        /\ sent[j].digest = pieces[sent[j].number].digest
        /\ \E k \in 1 .. Len(log.failures) : log.failures[k].cause = "download"

\* C12: a failure while a piece is drained from the local peer (reader
\* acquisition, metadata lookup, write-and-verify) ends neither the drain
\* nor the invocation: no terminal error follows it, the piece is not
\* reported by that pass and it is in the residual set handed on.
C12_LocalDrainFailureNonFatal ==
    /\ \A i \in 1 .. Len(log.local) : ~log.local[i].aborted
    /\ pc = "scheduler" =>
           \A i \in 1 .. Len(log.local) :
               log.local[i].phase = "local" =>
                   /\ \E k \in 1 .. Len(interested) :
                          interested[k].number = log.local[i].number
                   /\ ~\E j \in 1 .. Len(sent) :
                          /\ sent[j].kind = "progress"
                          /\ sent[j].phase = "local"
                          /\ sent[j].number = log.local[i].number

BackToSourceFailedRequests ==
    SelectSeq(sent, LAMBDA m : m.kind = "DownloadPieceBackToSourceFailedRequest")

\* C13: an HTTP error of the origin for a piece during NeedBackToSource
\* handling is answered by exactly one
\* DownloadPieceBackToSourceFailedRequest with that piece number and the
\* HTTP status, and ends the scheduler phase with that error: no further
\* piece is fetched in the phase.
C13_BackToSourceHttpErrorAborts ==
    \A i \in 1 .. Len(log.fetches) :
        (log.fetches[i].phase = "back_to_source" /\ log.fetches[i].res = "http") =>
            /\ Len(BackToSourceFailedRequests) = 1
            /\ BackToSourceFailedRequests[1].number = log.fetches[i].number
            /\ BackToSourceFailedRequests[1].status = "503"
            /\ sched = "http"
            /\ \A k \in (i + 1) .. Len(log.fetches) :
                   log.fetches[k].phase # "back_to_source"

SourceFetches == SelectSeq(log.fetches, LAMBDA f : f.phase = "source")
SchedulerPhaseFailed == sched \notin {"none", "open", "closed", "Ok"}
SourcePassSucceeded ==
    pc = "done" /\ idx > Len(work) /\ Len(finished) = Len(work) /\ work = interested

\* C14: every error that ends the scheduler phase is followed by exactly
\* one pure-source pass over the interested pieces, and a terminal internal
\* error is delivered if and only if that pass fails.
C14_SchedulerErrorFallsBackOnce ==
    /\ SchedulerPhaseFailed =>
           /\ pc \in {"source", "done"}
           /\ Len(SourceFetches) <= Len(interested)
           /\ \A i \in 1 .. Len(SourceFetches) :
                  SourceFetches[i].number = interested[i].number
           /\ pc = "source" => \A i \in 1 .. Len(Events) : Events[i].kind # "error"
           /\ pc = "done" =>
                  ((Events # <<>> /\ Events[Len(Events)] = ErrorEvent("internal"))
                      <=> ~SourcePassSucceeded)
    /\ sched \in {"open", "closed", "Ok"} =>
           /\ SourceFetches = <<>>
           /\ \A i \in 1 .. Len(Events) : Events[i].kind # "error"

\* C14 witness: the announce stream ended before completion and the
\* pure-source pass fetched every interested piece: no error is delivered.
C14_Witness ==
    /\ sched \in {"not_all_pieces", "stream_error", "unexpected_response", "http"}
    /\ SourcePassSucceeded
    /\ Len(SourceFetches) = Len(interested)
    /\ Len(interested) > 0
    /\ \A i \in 1 .. Len(Events) : Events[i].kind # "error"

PieceLevelRequests ==
    {"DownloadPieceFinishedRequest", "DownloadPieceFailedRequest",
     "DownloadPieceBackToSourceFailedRequest"}

\* C15: on the announce stream the first two outbound messages are
\* RegisterPeerRequest followed by DownloadPeerStartedRequest; every later
\* message is piece-level, so no piece-level message precedes the two.
C15_RegisterThenStartedFirst ==
    /\ sched \in {"open", "closed"} => Len(Outbox) >= 2
    /\ Outbox # <<>> =>
           /\ Len(Outbox) >= 2
           /\ Outbox[1].kind = "RegisterPeerRequest"
           /\ Outbox[2].kind = "DownloadPeerStartedRequest"
           /\ \A i \in 3 .. Len(Outbox) : Outbox[i].kind \in PieceLevelRequests

\* C15 witness: a stream that carried the two opening messages and then a
\* piece-level message of each kind of outcome.
C15_Witness ==
    /\ Len(Outbox) >= 4
    /\ \E i \in 3 .. Len(Outbox) : Outbox[i].kind = "DownloadPieceFinishedRequest"
    /\ \E i \in 3 .. Len(Outbox) : Outbox[i].kind # "DownloadPieceFinishedRequest"

\* The step is one of caller c inside wait_for_piece_finished.
WaitStep(c) == cpc[c] = "wait" /\ (cpc'[c] # cpc[c] \/ cpolls'[c] # cpolls[c])

\* C16: of two concurrent download_piece_started(t, n), the one that finds
\* the piece reserved by the other returns Ok without reserving once the
\* other has committed, and returns WaitForPieceFinishedTimeout, again
\* without reserving, when piece_timeout passes first.
C16_SecondCallerWaitsOrTimesOut ==
    [][\A c \in Callers :
          /\ (WaitStep(c) /\ cpc'[c] = "started") =>
                 /\ is_finished(pieces[cnum[c]])
                 /\ pieces' = pieces
                 /\ ~cheld'[c]
          /\ (cpc[c] = "WaitForPieceFinishedTimeout" /\ csaw[c] /\ cpc'[c] # cpc[c]) =>
                 /\ cpc'[c] = "idle"
                 /\ pieces' = pieces
                 /\ ~cheld'[c]]_vars

Count(seq, x) == Cardinality({i \in 1 .. Len(seq) : seq[i] = x})

\* C18: an upload_piece whose piece is absent or does not become Finished
\* within piece_timeout fails the piece upload and the task upload and
\* returns PieceNotFound, and every upload_piece_started of a returned call
\* is matched by exactly one upload_piece_finished or upload_piece_failed.
C18_UploadFailureTransitions ==
    \A c \in Callers :
        cpc[c] = "upload_returned" =>
            /\ cres[c] # "Ok" =>
                   /\ cres[c] = "PieceNotFound"
                   /\ Count(cupl[c], "upload_piece_failed") = 1
                   /\ Count(cupl[c], "upload_task_failed") = 1
            /\ Count(cupl[c], "upload_piece_started")
                   = Count(cupl[c], "upload_piece_finished")
                     + Count(cupl[c], "upload_piece_failed")

\* C19: upload_piece returns a reader only for a committed piece: the
\* record whose offset and length it reads the content with is Finished,
\* whatever delete_task and the writers of the piece do meanwhile.
C19_UploadReadsCommittedRecord ==
    [][\A c \in Callers :
          (cpc[c] = "upload_get" /\ cpc'[c] = "upload_returned" /\ cres'[c] = "Ok")
              => is_finished(pieces[cnum[c]])]_vars

\* The committed pieces whose byte range holds position i.
Covering(i) ==
    {n \in PieceNums : /\ is_finished(pieces[n])
                       /\ pieces[n].offset <= i
                       /\ i < pieces[n].offset + pieces[n].length}

\* C20: a task in state Finished has committed pieces whose byte ranges
\* cover [0, content_length) exactly, with no gaps and no overlaps.
C20_FinishedTaskIsCovered ==
    task = "Finished" =>
        /\ \A i \in 0 .. (ContentLength - 1) : Cardinality(Covering(i)) = 1
        /\ \A n \in PieceNums :
               is_finished(pieces[n]) =>
                   pieces[n].offset + pieces[n].length <= ContentLength

\* A step in which caller c has Storage::set_task_content_length applied,
\* and the value it is applied to.
SetLengthStep(c) ==
    \/ cpc[c] = "set" /\ cpc'[c] = "length_returned"
    \/ cpc[c] = "idle" /\ cpc'[c] = "set_returned"
SetLengthValue(c) == IF cpc[c] = "set" THEN chead[c].value ELSE chead'[c].value

\* C21: once the content_length of a task is set it never changes, however
\* get_content_length and set_task_content_length calls interleave: a set with
\* a different value fails and leaves the stored value as it was, and
\* get_content_length returns the stored value without a HEAD request when
\* the value is already set.
C21_ContentLengthSetOnce ==
    [][ /\ tlen.set => tlen' = tlen
        /\ \A c \in Callers :
              /\ (SetLengthStep(c) /\ tlen.set /\ SetLengthValue(c) # tlen.value)
                    => (cres'[c] = "InvariantViolation" /\ tlen' = tlen)
              /\ (cpc[c] = "idle" /\ task # "Absent" /\ tlen.set)
                    => /\ cpc'[c] # "head"
                       /\ (cpc'[c] = "length_returned" /\ cres'[c] = "Ok")
                             => (chead'[c].value = tlen.value /\ requests' = requests)
      ]_vars

\* A get_content_length that found no length, asked the origin, and then
\* failed to store what it parsed because another call had set another value.
C21_Witness ==
    \E c \in Callers :
        /\ cpc[c] = "length_returned"
        /\ cres[c] = "InvariantViolation"
        /\ chead[c].sent = 1
        /\ tlen.set
        /\ tlen.value # chead[c].value

\* The unconditional local drain has emitted a progress event for every
\* piece of the task, that is for every interested piece.
LocalDrainFinishedAll ==
    \A n \in PieceNums :
        \E i \in 1 .. Len(sent) :
            sent[i].kind = "progress" /\ sent[i].phase = "local" /\ sent[i].number = n

\* C22: when the local drain finishes every interested piece,
\* download_into_file returns without opening the scheduler announce stream,
\* without sending any scheduler message and without any origin request.
C22_LocalDrainCompleteSkipsScheduler ==
    LocalDrainFinishedAll =>
        /\ pc \in {"local", "done"}
        /\ sched = "none"
        /\ Outbox = <<>>
        /\ log.fetches = <<>>

\* download_into_file has returned after a local drain that finished all.
C22_Witness == LocalDrainFinishedAll /\ pc = "done" /\ interested = <<>>

\* The step that handles a response which is neither a NormalTaskResponse
\* nor a NeedBackToSourceResponse: the EmptyTaskResponse.
EmptyTaskStep ==
    pc = "receive" /\ responses' = responses + 1
                   /\ pc' \notin {"normal", "back_to_source"}

\* C23: on an EmptyTask response the scheduler phase terminates
\* successfully: the outbound half is closed, no piece is fetched, no
\* progress event and no terminal error is emitted, and the pure-source
\* fallback is not started.
C23_EmptyTaskEndsPhaseOk ==
    [][ /\ EmptyTaskStep =>
              /\ sched' = "Ok"
              /\ pc' = "done"
              /\ sent' = sent
              /\ log' = log
              /\ pieces' = pieces /\ content' = content /\ file' = file
        /\ sched = "Ok" => (pc = "done" /\ pc' = "done" /\ log' = log /\ sent' = sent)
      ]_vars

\* The phase has ended with Ok although no piece was finished in it: the
\* return of the EmptyTask branch.
C23_Witness ==
    /\ sched = "Ok" /\ pc = "done"
    /\ responses >= 1
    /\ finished = <<>> /\ interested # <<>>

\* A step of the scheduler phase in which the orchestrator decides to send
\* a DownloadPieceFailedRequest (a failure of an assigned piece is logged)
\* or a DownloadPieceBackToSourceFailedRequest (a fetch from the origin is
\* logged with a result other than ok).
DecidesFailureMessage ==
    /\ pc \in {"normal", "back_to_source"}
    /\ \/ Len(log.failures') = Len(log.failures) + 1
       \/ /\ Len(log.fetches') = Len(log.fetches) + 1
          /\ log.fetches'[Len(log.fetches')].res # "ok"

\* C24: every scheduler message the orchestrator decides to send is placed
\* on the outbound stream and none is dropped: a failed send of a
\* DownloadPieceFailedRequest or DownloadPieceBackToSourceFailedRequest never
\* leads to the session continuing with the next piece as if the message had
\* been delivered.
C24_NoOutboundMessageDropped ==
    [][ DecidesFailureMessage =>
            \/ Len(Outbox') = Len(Outbox) + 1
            \/ ~(pc' = pc /\ idx' = idx + 1)
      ]_vars

\* A step that sends Err(status) on the progress channel.
EmitsError ==
    Len(sent') = Len(sent) + 1 /\ sent'[Len(sent')].kind = "error"
\* The step sends Err(status) with this status, and download_into_file returns.
EmitsStatus(status) == sent' = Append(sent, ErrorEvent(status)) /\ pc' = "done"
PreflightPositions == {"timeout", "open", "calculate", "get_task"}

\* C25: terminal errors of download_into_file carry the typed status of
\* their cause: an invalid timeout or a failed interested-piece calculation
\* gives invalid_argument, a task missing from storage gives not_found, and
\* file-open, storage-lookup, local-peer and pure-source failures give
\* internal; a preflight error is emitted before any piece progress event.
C25_TerminalErrorStatusByCause ==
    [][ /\ (pc = "timeout" /\ EmitsError) => EmitsStatus("invalid_argument")
        /\ (pc = "open" /\ EmitsError) => EmitsStatus("internal")
        /\ (pc = "calculate" /\ EmitsError) => EmitsStatus("invalid_argument")
        /\ (pc = "get_task" /\ EmitsError) =>
               \/ EmitsStatus("not_found") /\ task = "Absent"
               \/ EmitsStatus("internal")
        /\ get_task(FALSE) => EmitsStatus("internal")
        /\ (get_task(TRUE) /\ task = "Absent") => EmitsStatus("not_found")
        /\ (pc \in {"local_finished", "local", "source"} /\ EmitsError)
               => EmitsStatus("internal")
        /\ (pc \in PreflightPositions /\ EmitsError) => sent = <<>>
        /\ (pc \in PreflightPositions /\ pc' = "done") => EmitsError
      ]_vars

\* The task is missing from storage and the only event is not_found.
C25_Witness ==
    /\ pc = "done"
    /\ task = "Absent"
    /\ sent = <<ErrorEvent("not_found")>>

\* The store holds a piece record or content of the task.
PiecesOrContentRemain ==
    (\E n \in PieceNums : pieces[n] # AbsentPiece) \/ content # <<>>

\* C26: Storage.delete_task cascades: after it returns Ok the task record is
\* gone, the task has no piece record and its content is removed; and when a
\* step of it fails, the store is not left with the task record deleted
\* while piece records or content of the task remain. (Stated for a
\* delete_task that runs with no other caller of the store.)
C26_DeleteTaskCascades ==
    cattempts = 0 =>
        /\ dpc = "done" => (task = "Absent" /\ ~PiecesOrContentRemain)
        /\ dpc = "failed" => ~(task = "Absent" /\ PiecesOrContentRemain)

\* ceil(a / b) for b > 0: the least k with k * b >= a.
Ceil(a, b) == CHOOSE k \in 0 .. a : k * b >= a /\ \A j \in 0 .. k - 1 : j * b < a

RECURSIVE SumOfLengths(_)
SumOfLengths(seq) ==
    IF seq = <<>> THEN 0 ELSE Head(seq).length + SumOfLengths(Tail(seq))

\* C27: calculate_interested(piece_length, content_length, None) yields
\* exactly ceil(content_length / piece_length) pieces numbered 0.. in order,
\* with offset = number * piece_length, every length equal to piece_length
\* except the last, which is content_length - offset, and the lengths sum to
\* content_length; with piece_length = 0 it fails and download_into_file
\* emits invalid_argument.
C27_CalculateInterestedCoversContent ==
    LET pl == download.piece_length
        cl == download.content_length
        k == Len(interested)
    IN  /\ (pc = "get_task" /\ pl > 0) =>
              /\ k = Ceil(cl, pl)
              /\ \A i \in 1 .. k :
                    /\ interested[i].number = i - 1
                    /\ interested[i].offset = (i - 1) * pl
                    /\ interested[i].length =
                          IF i < k THEN pl ELSE cl - interested[i].offset
                    /\ interested[i].length > 0
              /\ SumOfLengths(interested) = cl
        /\ (pc # "calculate" /\ pl = 0) =>
              /\ pc = "done"
              /\ sent = <<ErrorEvent("invalid_argument")>>
        /\ (pc # "calculate" /\ pl > 0) => sent = <<>>

\* A calculation whose last piece is shorter than the others.
C27_Witness ==
    /\ pc = "get_task"
    /\ Len(interested) >= 2
    /\ interested[Len(interested)].length < download.piece_length

\* The pieces of intr whose number no piece of fin has, in the order of intr.
RECURSIVE Unfinished(_, _)
Unfinished(fin, intr) ==
    IF intr = <<>> THEN <<>>
    ELSE IF \E j \in 1 .. Len(fin) : fin[j].number = Head(intr).number
         THEN Unfinished(fin, Tail(intr))
         ELSE <<Head(intr)>> \o Unfinished(fin, Tail(intr))

\* C28: remove_finished_from_interested(F, I) returns the pieces of I whose
\* number is not in F, in the order of I, and is idempotent:
\* remove(F, remove(F, I)) = remove(F, I).
C28_RemoveFinishedIsOrderedDifference ==
    pc = "removed" =>
        /\ work = Unfinished(finished, interested)
        /\ remove_finished_from_interested(finished, work) = work

\* A removal from the interested pieces in reverse order that drops a piece
\* from the middle and keeps pieces on both sides of it.
C28_Witness ==
    /\ pc = "removed"
    /\ Len(interested) = 3
    /\ interested[1].number > interested[2].number
    /\ work = <<interested[1], interested[3]>>
    /\ finished # <<>>

\* C29: head and get of the HTTP backend fail with an error, without sending
\* any request, whenever the request carries no http_header; with a header
\* present and a reachable server they return Ok with http_status_code equal
\* to the status of the server (the client of the request being built).
C29_BackendRequiresHeader ==
    \A c \in Callers :
        cpc[c] \in {"head_returned", "get_returned"} =>
            /\ ~chead[c].has_header =>
                  /\ ~chead[c].ok
                  /\ cres[c] = "InvalidParameter"
                  /\ chead[c].sent = 0
            /\ (chead[c].has_header /\ chead[c].client_ok /\ chead[c].origin # 0) =>
                  /\ chead[c].ok
                  /\ cres[c] = "Ok"
                  /\ chead[c].sent = 1
                  /\ chead[c].http_status_code = chead[c].origin

\* A head without a header has failed, and a get with a header has returned
\* Ok with the 404 of the server.
C29_Witness ==
    \E c, d \in Callers :
        /\ cpc[c] = "head_returned" /\ ~chead[c].has_header /\ ~chead[c].ok
        /\ cpc[d] = "get_returned" /\ chead[d].has_header /\ chead[d].ok
        /\ chead[d].http_status_code = 404 /\ ~chead[d].success
        /\ requests = 1

\* C30: for every piece finished in the scheduler phase (remote peer or
\* back-to-source) the steps happen in the order: piece metadata committed,
\* then progress event emitted, then DownloadPieceFinishedRequest reported to
\* the scheduler.
C30_ProgressBeforeSchedulerReport ==
    \A i \in 1 .. Len(sent) :
        sent[i].kind = "DownloadPieceFinishedRequest" =>
            /\ is_finished(pieces[sent[i].number])
            /\ \E j \in 1 .. i - 1 :
                  /\ sent[j].kind = "progress"
                  /\ sent[j].phase = sent[i].phase
                  /\ sent[j].number = sent[i].number

\* The piece numbers of the messages of seq, in order.
NumbersOf(seq) == [i \in 1 .. Len(seq) |-> seq[i].number]
\* The pieces the scheduler phase finished, in the order they completed: the
\* progress events of the NormalTask and NeedBackToSource branches.
SchedulerPhaseFinished ==
    SelectSeq(sent, LAMBDA m : m.kind = "progress"
                               /\ m.phase \in {"normal", "back_to_source"})
FinishedRequests ==
    SelectSeq(sent, LAMBDA m : m.kind = "DownloadPieceFinishedRequest")

\* C31: every piece finished in the scheduler phase, whether from a remote
\* peer or back-to-source, yields exactly one DownloadPieceFinishedRequest
\* for that piece number, and these requests appear on the outbound stream
\* in the order the pieces completed.
C31_OneFinishedRequestPerPiece ==
    /\ NumbersOf(FinishedRequests) = NumbersOf(SchedulerPhaseFinished)
    /\ \A i, j \in 1 .. Len(FinishedRequests) :
           FinishedRequests[i].number = FinishedRequests[j].number => i = j

\* Two pieces were finished in the scheduler phase out of piece-number
\* order, the later one back-to-source, and both were reported.
C31_Witness ==
    /\ Len(FinishedRequests) >= 2
    /\ FinishedRequests[1].number > FinishedRequests[2].number
    /\ FinishedRequests[1].phase = "normal"
    /\ FinishedRequests[2].phase = "back_to_source"

\* The traffic type that names where a phase obtains its pieces.
TrafficOfPhase(phase) ==
    CASE phase \in {"local_finished", "local"} -> "LocalPeer"
      [] phase = "normal" -> "RemotePeer"
      [] phase \in {"back_to_source", "source"} -> "BackToSource"

\* C32: the traffic_type of every successful progress event names the
\* source the piece was obtained from: LocalPeer for local-drain pieces,
\* RemotePeer for pieces fetched from a candidate parent, and BackToSource
\* for every piece fetched from the origin, both in NeedBackToSource
\* handling and in the pure-source fallback.
C32_TrafficTypeNamesSource ==
    \A i \in 1 .. Len(sent) :
        sent[i].kind = "progress" => sent[i].traffic = TrafficOfPhase(sent[i].phase)

\* The piece of the current iteration is not committed: its fetch reserves it.
ReservesCurrentPiece == ~is_finished(pieces[work[idx].number])
\* After the step the piece of the iteration is Failed, not committed, and
\* no piece record is a Pending reservation.
CurrentPieceEndsFailed ==
    /\ pieces'[work[idx].number].state = "Failed"
    /\ pieces'[work[idx].number].digest = <<>>
    /\ \A n \in PieceNums : pieces'[n].state # "Pending"

IsUnsignedDecimal(text) == text # <<>> /\ \A i \in 1 .. Len(text) : IsDigit(text[i])

C35_LengthStoredOnlyFromSuccess ==
    [][ \A c \in Callers :
          (get_content_length_set(c) /\ ~tlen.set /\ tlen'.set) =>
              /\ chead[c].success
              /\ chead[c].http_status_code \in 200 .. 299
      ]_vars

\* No Err(Status) has been sent on the progress channel.
NoTerminalError(out) == \A i \in 1 .. Len(out) : out[i].kind # "error"

\* The piece number has a successful progress event among out.
ReportedIn(out, n) == \E i \in 1 .. Len(out) : out[i].kind = "progress" /\ out[i].number = n

\* C36: when download_into_file returns without having emitted a terminal
\* error and the scheduler did not answer EmptyTask, every interested piece
\* has been reported in a successful progress event during that invocation.
C36_ReturnWithoutErrorReportedAll ==
    [][ (/\ pc # "done" /\ pc' = "done"
         /\ NoTerminalError(sent')
         /\ ~receive_empty_task) =>
            \A n \in PieceNums : ReportedIn(sent', n)
      ]_vars

\* A progress send of the scheduler phase failed on the closed channel.
ProgressSendFailed == sched = "progress_send_error"

\* C37: once the caller has closed the progress channel, so that a progress
\* send fails during the scheduler phase, the orchestrator closes the
\* scheduler stream and starts no further piece fetch: it does not go on to
\* request pieces from the origin in the pure-source fallback.
C37_CancelStartsNoFurtherFetch ==
    [][ ProgressSendFailed =>
            /\ log'.fetches = log.fetches
            /\ UNCHANGED <<pieces, content>>
      ]_vars

PassLeftUnfinished ==
    /\ pc = "back_to_source"
    /\ idx > Len(work)
    /\ Len(finished) # Len(work)

C40_NoPieceOfDeletedTask ==
    (/\ dpc = "done"
     /\ task = "Absent"
     /\ \A c \in Callers : cpc[c] = "idle") => ~PiecesOrContentRemain

====
